---- MODULE Spec2Model ----
(***************************************************************************)
(* Model of tsl/src/remote/dist_copy.c: the distributed COPY of rows into  *)
(* a hypertable whose chunks live on remote data nodes.                    *)
(*                                                                         *)
(* One load is one behaviour.  mode = "batch" is remote_distributed_copy   *)
(* (the batching loop), mode = "slot" is the per-row entry point           *)
(* remote_copy_send_slot driven by an outside caller that ends the load    *)
(* with remote_copy_end.  The control position of the single backend       *)
(* process is pc; ctx tells whether control is inside the PG_TRY block     *)
(* ("try"), inside the remote_copy_end of the PG_CATCH block ("catch") or  *)
(* inside the remote_copy_end of the normal path ("end").                  *)
(***************************************************************************)
EXTENDS Integers, Sequences, FiniteSets, TLC

(* ------------------------------------------------------------------ *)
(* Bounds of the model                                                  *)
(* ------------------------------------------------------------------ *)

\* MAX_BATCH_ROWS is 1024 and MAX_BATCH_BYTES is 10 MiB in the source; the
\* model keeps the two thresholds and their comparisons and scales the
\* numbers down so that batches fill up within a few rows.
MAX_BATCH_ROWS == 3
MAX_BATCH_BYTES == 4
\* Number of rows the source produces at most before it signals the end.
MaxRows == 3
\* Number of readiness waits one flush may go through.
MaxRounds == 1
\* Number of rows the outside caller sends through remote_copy_send_slot.
MaxSlots == 2

\* Encoded lengths a row may have (row_data->len).
RowLens == {1, 4}
\* Data nodes (foreign server oids) and users.
Nodes == {1, 2}
Users == {1, 2}
\* Points of the hyperspace a row may fall on.
Points == {1, 2, 3}
\* The chunk (hypercube) a point falls into.
ChunkIds == {1, 2, 3}
ChunkOf(p) == p
\* The data-node lists a chunk may be created with (chunk->data_nodes).
NodeLists == {<<1>>, <<2>>, <<1, 2>>}
NoChunk == << >>

ConnStatus == {"CONN_IDLE", "CONN_COPY_IN", "CONN_PROCESSING", "CONN_ERROR"}
\* A connection handle is the identity it was opened for.
Conns == Nodes \X Users

VARIABLES
  mode, pc, ctx,
  \* RemoteCopyContext
  batch_rows, batch_points, current_batch_rows, current_batch_bytes,
  data_node_connections, connections_in_use, mctx_deleted,
  \* remote_distributed_copy
  eof, processed, rows_read,
  \* remote_copy_process_and_send_data
  row_in_batch, did_flush, data_nodes, dn_idx,
  \* remote_copy_send_slot
  slot_nodes, slot_user, slot_conns, slots_sent,
  \* flush_active_connections
  to_end_copy, to_flush, to_flush_next, wait_events, rounds,
  \* the world outside: chunks of the hypertable, connections
  chunks, status, nonblocking, ack,
  \* error in flight
  first_error, error,
  \* history
  copy_end_calls, pass_flushes, pass_missing, pass_creates, pass_puts,
  begin_count, end_count, undersized, copy_in_at_entry, last_request, first_conn,
  unverified,
  \* row encoding: the COPY options and what they select, the row at hand
  copy_options, delimiter, null_string, fields, values, nulls, attnums, row_data,
  \* end_copy_on_data_nodes: the list cell, the error of the last failure
  lc, err, failure,
  \* the dimensions of the hypertable, the CopyDimensionInfo of each, the
  \* coordinates of the point of a row
  dims, dimensions, coordinates,
  \* the drain loop: the cell of to_flush, the data each connection has left
  \* to write, its socket, its response, the calls of the round, the wait
  \* event set, the connections that are done
  to_flush_cell, out_pending, writable, answered, flush_log, wait_set, drained,
  \* history of a whole load: whether it is kept, the points of the rows
  \* read, the rows pushed to each data node
  tracking, source, pushed

ctxVars == <<batch_rows, batch_points, current_batch_rows, current_batch_bytes>>
cacheVars == <<data_node_connections, connections_in_use>>
loopVars == <<eof, processed, rows_read>>
passVars == <<row_in_batch, did_flush, data_nodes, dn_idx>>
slotVars == <<slot_nodes, slot_user, slot_conns, slots_sent>>
flushVars == <<to_end_copy, to_flush, to_flush_next, wait_events, rounds>>
connVars == <<status, nonblocking>>
ctlVars == <<pc, ctx, first_error, error, copy_end_calls>>
passHist == <<pass_flushes, pass_missing, pass_creates, pass_puts>>
reqHist == <<last_request, first_conn>>
ackVars == <<ack, unverified>>
codecVars == <<copy_options, delimiter, null_string, fields, values, nulls,
               attnums, row_data>>
endCopyVars == <<lc, err, failure>>
dimVars == <<dims, dimensions, coordinates>>
drainVars == <<to_flush_cell, out_pending, writable, answered, flush_log, wait_set,
               drained>>
unitVars == <<endCopyVars, dimVars, drainVars>>
histVars == <<tracking, source, pushed>>

vars == <<mode, ctxVars, cacheVars, mctx_deleted, loopVars, passVars, slotVars,
          flushVars, chunks, connVars, first_error, error, pc, ctx,
          copy_end_calls, passHist, begin_count, end_count, undersized,
          copy_in_at_entry, reqHist, ackVars, codecVars, unitVars, histVars>>

\* Everything but the control position, the error and the row encoding.
loadVars == <<mode, ctxVars, cacheVars, mctx_deleted, loopVars, passVars,
              slotVars, flushVars, chunks, connVars, passHist, begin_count,
              end_count, undersized, copy_in_at_entry, reqHist, ackVars,
              histVars>>

(* ------------------------------------------------------------------ *)
(* Helpers                                                              *)
(* ------------------------------------------------------------------ *)

Range(s) == {s[i] : i \in 1..Len(s)}
NoConn == <<0, 0>>
NoRequest == [id |-> NoConn, conn |-> NoConn]

\* list_member(): pointer membership in a List.
list_member(list, x) == \E i \in 1..Len(list) : list[i] = x

\* GetUserId(): the user running the COPY.
GetUserId == 1

\* Lines 35-36: the defaults of PostgreSQL's text format.
DEFAULT_PG_DELIMITER == "\t"
DEFAULT_PG_NULL_VALUE == <<"\\", "N">>

\* remote_connection_id(server_oid, userid)
remote_connection_id(server, user) == <<server, user>>

(* ------------------------------------------------------------------ *)
(* Errors: ereport(ERROR), PG_TRY / PG_CATCH / PG_RE_THROW              *)
(* ------------------------------------------------------------------ *)

\* Mutant: the error leaves the load without the PG_CATCH block.
Raise_NoCopyEnd(e) ==
  /\ ctx' = ctx
  /\ first_error' = IF first_error = "none" THEN e ELSE first_error
  /\ error' = e
  /\ copy_end_calls' = copy_end_calls
  /\ pc' = "raised"

\* An error raised inside the PG_TRY block enters the PG_CATCH block, which
\* calls remote_copy_end (so flush_active_connections starts); an error
\* raised anywhere else leaves the load and is what the caller receives.
Raise(e) ==
  IF ctx = "try"
  THEN /\ ctx' = "catch"
       /\ first_error' = e
       /\ error' = error
       /\ copy_end_calls' = copy_end_calls + 1
       /\ pc' = "flush_mark"
  ELSE /\ ctx' = ctx
       /\ first_error' = IF first_error = "none" THEN e ELSE first_error
       /\ error' = e
       /\ copy_end_calls' = copy_end_calls
       /\ pc' = "raised"

\* Control moves on without an error.
Goto(l) ==
  /\ pc' = l
  /\ UNCHANGED <<ctx, first_error, error, copy_end_calls>>

(* ------------------------------------------------------------------ *)
(* Initial state: after remote_copy_begin                               *)
(* ------------------------------------------------------------------ *)

\* The rows of a load are encoded one by one before they are batched; in
\* the load their content is known by identity and length only.
CodecIdle ==
  /\ copy_options = << >>
  /\ delimiter = DEFAULT_PG_DELIMITER
  /\ null_string = DEFAULT_PG_NULL_VALUE
  /\ fields = << >>
  /\ values = << >>
  /\ nulls = << >>
  /\ attnums = << >>
  /\ row_data = << >>

\* No connection is in use and none has a COPY open.
ConnectionsIdle ==
  /\ connections_in_use = << >>
  /\ status = [c \in Conns |-> "CONN_IDLE"]
  /\ nonblocking = [c \in Conns |-> FALSE]
  /\ copy_in_at_entry = {}

\* end_copy_on_data_nodes is not running.
EndCopyIdle ==
  /\ lc = 0
  /\ err = NoConn
  /\ failure = FALSE

\* No dimension has been derived.
DimensionsIdle ==
  /\ dims = << >>
  /\ dimensions = << >>
  /\ coordinates = << >>

\* flush_active_connections is not running.
FlushIdle ==
  /\ to_end_copy = << >>
  /\ to_flush = << >>
  /\ to_flush_next = << >>
  /\ wait_events = << >>
  /\ rounds = 0

\* No history of the load is kept.
HistoryIdle ==
  /\ tracking = FALSE
  /\ source = << >>
  /\ pushed = [n \in Nodes |-> << >>]

\* The drain loop is not running.
DrainIdle ==
  /\ to_flush_cell = 0
  /\ out_pending = [c \in Conns |-> 0]
  /\ writable = [c \in Conns |-> FALSE]
  /\ answered = [c \in Conns |-> FALSE]
  /\ flush_log = << >>
  /\ wait_set = << >>
  /\ drained = {}

\* The context of a load before the first row.
ContextIdle ==
  /\ batch_rows = << >>
  /\ batch_points = << >>
  /\ current_batch_rows = 0
  /\ current_batch_bytes = 0
  /\ data_node_connections = << >>
  /\ mctx_deleted = FALSE
  /\ eof = FALSE
  /\ processed = 0
  /\ rows_read = 0
  /\ row_in_batch = 0
  /\ did_flush = FALSE
  /\ data_nodes = << >>
  /\ dn_idx = 0
  /\ slot_nodes = << >>
  /\ slot_user = 0
  /\ slot_conns = << >>
  /\ slots_sent = 0
  \* chunks that exist before the load starts
  /\ chunks \in {ch \in [ChunkIds -> {NoChunk, <<1>>}] : \A k \in ChunkIds \ {1} : ch[k] = NoChunk}
  /\ first_error = "none"
  /\ error = "none"
  /\ copy_end_calls = 0
  /\ pass_flushes = 0
  /\ pass_missing = FALSE
  /\ pass_creates = 0
  /\ pass_puts = << >>
  /\ begin_count = [c \in Conns |-> 0]
  /\ end_count = [c \in Conns |-> 0]
  /\ undersized = 0
  /\ last_request = NoRequest
  /\ first_conn = [c \in Conns |-> NoConn]
  /\ ack = [c \in Conns |-> "none"]
  /\ unverified = {}

\* The context of a load and the connections before the first row.
LoadIdle ==
  /\ ContextIdle
  /\ FlushIdle
  /\ HistoryIdle
  /\ ConnectionsIdle
  /\ EndCopyIdle
  /\ DimensionsIdle
  /\ DrainIdle

Init ==
  /\ mode \in {"batch", "slot"}
  /\ pc = IF mode = "batch" THEN "read" ELSE "slot"
  /\ ctx = IF mode = "batch" THEN "try" ELSE "caller"
  /\ LoadIdle
  /\ CodecIdle

(* ------------------------------------------------------------------ *)
(* remote_distributed_copy: the batching loop                           *)
(* ------------------------------------------------------------------ *)

\* Mutant: the row threshold is compared with <=.
AccumulateMore_OffByOne(e, rows, bytes) ==
  ~e /\ rows <= MAX_BATCH_ROWS /\ bytes < MAX_BATCH_BYTES

\* Mutant: the byte threshold is not looked at.
AccumulateMore_NoBytes(e, rows, bytes) ==
  ~e /\ rows < MAX_BATCH_ROWS

\* The loop condition of lines 1341-1342: keep accumulating.
AccumulateMore(e, rows, bytes) ==
  ~e /\ rows < MAX_BATCH_ROWS /\ bytes < MAX_BATCH_BYTES

\* A batch under both thresholds.
Undersized(rows, bytes) ==
  IF rows < MAX_BATCH_ROWS /\ bytes < MAX_BATCH_BYTES THEN 1 ELSE 0

\* The rows the source holds at most: fewer when the history of the load
\* is kept.
MaxTracked == 2
RowsOfSource == IF tracking THEN MaxTracked ELSE MaxRows

\* History: the point of a row read from the source (the rows are numbered
\* as they are read), the numbers of the rows handed to PQputCopyData for a
\* data node.
RowIds(rows) == [k \in 1..Len(rows) |-> rows[k].id]
Remember(hist, entry) == IF tracking THEN Append(hist, entry) ELSE hist
Push(hist, server, rows) ==
  IF tracking THEN [hist EXCEPT ![server] = @ \o rows] ELSE hist

\* read_next_copy_row appends the row and its point to the batch.
AppendRow(row, point) ==
  /\ batch_rows' = Append(batch_rows, row)
  /\ batch_points' = Append(batch_points, point)
  /\ current_batch_rows' = current_batch_rows + 1
  /\ current_batch_bytes' = current_batch_bytes + row.len

\* remote_copy_process_and_send_data starts: n rows to route.
StartPass ==
  /\ row_in_batch' = 1
  /\ did_flush' = FALSE
  /\ data_nodes' = << >>
  /\ dn_idx' = 0
  /\ pass_flushes' = 0
  /\ pass_missing' = FALSE
  /\ pass_creates' = 0
  /\ pass_puts' = << >>

\* One iteration of the while loop up to the decision of line 1341: the
\* source hands over a row of some length at some point.
ReadRow ==
  /\ pc = "read"
  /\ rows_read < RowsOfSource
  /\ \E p \in Points, l \in RowLens :
       LET row == [id |-> rows_read + 1, len |-> l] IN
       /\ AppendRow(row, p)
       /\ source' = Remember(source, p)
       /\ rows_read' = rows_read + 1
       /\ eof' = FALSE
       /\ IF AccumulateMore(FALSE, current_batch_rows + 1, current_batch_bytes + l)
          THEN /\ Goto("read")
               /\ UNCHANGED <<passVars, passHist, undersized>>
          ELSE /\ Goto("route")
               /\ StartPass
               /\ undersized' = undersized +
                    Undersized(current_batch_rows + 1, current_batch_bytes + l)
  /\ UNCHANGED <<mode, codecVars, unitVars, tracking, pushed, ackVars, cacheVars, mctx_deleted, processed, slotVars, flushVars,
                 chunks, connVars, begin_count, copy_in_at_entry, reqHist,
                 end_count>>

\* The source is exhausted: read_next_copy_row returns false and the batch
\* collected so far (possibly empty) is sent out.
ReadEof ==
  /\ pc = "read"
  /\ eof' = TRUE
  /\ Goto("route")
  /\ StartPass
  /\ undersized' = undersized + Undersized(current_batch_rows, current_batch_bytes)
  /\ UNCHANGED <<mode, codecVars, unitVars, histVars, ackVars, ctxVars, cacheVars, mctx_deleted, processed, rows_read,
                 slotVars, flushVars, chunks, connVars, begin_count,
                 copy_in_at_entry, reqHist,
                 end_count>>

\* Mutant: the partitioning value is looked at only after the rows of the
\* batch were pushed.
ReadNullKey_AfterSend ==
  /\ pc = "send"
  /\ dn_idx > Len(data_nodes)
  /\ pass_puts # << >>
  /\ Raise("null_partition_key")
  /\ UNCHANGED <<mode, codecVars, unitVars, histVars, ackVars, ctxVars, cacheVars, mctx_deleted, loopVars,
                 passVars, slotVars, flushVars, chunks, connVars, passHist,
                 begin_count, undersized, copy_in_at_entry, reqHist,
                 end_count>>

\* The row read has a NULL in a partitioning column: the point cannot be
\* computed (lines 204-209 and 1014-1018) and the row is not appended.
ReadNullKey ==
  /\ pc = "read"
  /\ rows_read < RowsOfSource
  /\ rows_read' = rows_read + 1
  /\ Raise("null_partition_key")
  /\ UNCHANGED <<mode, codecVars, unitVars, histVars, ackVars, ctxVars, cacheVars, mctx_deleted, eof, processed,
                 passVars, slotVars, flushVars, chunks, connVars, passHist,
                 begin_count, undersized, copy_in_at_entry, reqHist,
                 end_count>>

\* CHECK_FOR_INTERRUPTS() of line 1338: a pending cancel is raised.
LoopInterrupt ==
  /\ pc = "read"
  /\ Raise("cancel")
  /\ UNCHANGED <<mode, codecVars, unitVars, histVars, ackVars, ctxVars, cacheVars, mctx_deleted, loopVars, passVars,
                 slotVars, flushVars, chunks, connVars, passHist, begin_count,
                 undersized, copy_in_at_entry, reqHist,
                 end_count>>

(* ------------------------------------------------------------------ *)
(* remote_copy_process_and_send_data: routing                           *)
(* ------------------------------------------------------------------ *)

\* Index of the DataNodeRows of a server in data_nodes, 0 if none.
FindDataNodeRows(dns, server) ==
  IF \E i \in 1..Len(dns) : dns[i].server_oid = server
  THEN CHOOSE i \in 1..Len(dns) :
         /\ dns[i].server_oid = server
         /\ \A j \in 1..(i - 1) : dns[j].server_oid # server
  ELSE 0

\* Lines 1149-1178 for one data node of the chunk: append the row's batch
\* index to that node's rows, creating the node's entry when it has none.
ScheduleOnNode(dns, server, idx) ==
  LET i == FindDataNodeRows(dns, server) IN
  IF i = 0
  THEN Append(dns, [server_oid |-> server, connection |-> NoConn,
                    row_indices |-> <<idx>>])
  ELSE [dns EXCEPT ![i].row_indices = Append(@, idx)]

\* Lines 1149-1178: every data node of the chunk, in the chunk's order.
RECURSIVE ScheduleRow(_, _, _)
ScheduleRow(dns, nodelist, idx) ==
  IF nodelist = << >>
  THEN dns
  ELSE ScheduleRow(ScheduleOnNode(dns, Head(nodelist), idx), Tail(nodelist), idx)

\* Mutant: the lookup never finds a chunk.
find_chunk_for_point_Miss(point) == NoChunk

\* ts_hypertable_find_chunk_for_point
find_chunk_for_point(point) == chunks[ChunkOf(point)]

\* Mutant: did_flush is not looked at, every missing chunk flushes.
MustFlush_Always(flushed) == TRUE

\* Mutant: the flush before the creation of a chunk is left out.
MustFlush_Never(flushed) == FALSE

\* Whether the routing loop flushes before it creates a chunk (line 1124).
MustFlush(flushed) == ~flushed

\* One iteration of the loop of lines 1117-1179 whose chunk exists.
RouteRowFound ==
  /\ pc = "route"
  /\ row_in_batch <= current_batch_rows
  /\ find_chunk_for_point(batch_points[row_in_batch]) # NoChunk
  /\ data_nodes' = ScheduleRow(data_nodes,
                               find_chunk_for_point(batch_points[row_in_batch]),
                               row_in_batch)
  /\ row_in_batch' = row_in_batch + 1
  /\ Goto("route")
  /\ UNCHANGED <<mode, codecVars, unitVars, histVars, ackVars, ctxVars, cacheVars, mctx_deleted, loopVars, did_flush,
                 dn_idx, slotVars, flushVars, chunks, connVars, passHist,
                 begin_count, undersized, copy_in_at_entry, reqHist,
                 end_count>>

\* The chunk is missing (line 1122): flush_active_connections is entered
\* unless this pass has flushed already (lines 1124-1133); otherwise control
\* is at the creation of the chunk.
RouteRowMissing ==
  /\ pc = "route"
  /\ row_in_batch <= current_batch_rows
  /\ find_chunk_for_point(batch_points[row_in_batch]) = NoChunk
  /\ pass_missing' = TRUE
  /\ IF MustFlush(did_flush)
     THEN /\ pass_flushes' = pass_flushes + 1
          /\ Goto("flush_mark")
     ELSE /\ pass_flushes' = pass_flushes
          /\ Goto("create")
  /\ UNCHANGED <<mode, codecVars, unitVars, histVars, ackVars, ctxVars, cacheVars, mctx_deleted, loopVars, passVars,
                 slotVars, flushVars, chunks, connVars, pass_creates, pass_puts,
                 begin_count, undersized, copy_in_at_entry, reqHist,
                 end_count>>

\* ts_hypertable_create_chunk_for_point (line 1134): the chunk is created on
\* some data nodes, and the row is scheduled on them.
CreateChunk ==
  /\ pc = "create"
  /\ \E nl \in NodeLists :
       /\ chunks' = [chunks EXCEPT ![ChunkOf(batch_points[row_in_batch])] = nl]
       /\ data_nodes' = ScheduleRow(data_nodes, nl, row_in_batch)
  /\ row_in_batch' = row_in_batch + 1
  /\ pass_creates' = pass_creates + 1
  /\ Goto("route")
  /\ UNCHANGED <<mode, codecVars, unitVars, histVars, ackVars, ctxVars, cacheVars, mctx_deleted, loopVars, did_flush,
                 dn_idx, slotVars, flushVars, connVars, pass_flushes,
                 pass_missing, pass_puts, begin_count, undersized,
                 copy_in_at_entry, reqHist,
                 end_count>>

\* All rows are routed: go on to the connections (line 1184).
RouteEnd ==
  /\ pc = "route"
  /\ row_in_batch > current_batch_rows
  /\ dn_idx' = 1
  /\ Goto("connect")
  /\ UNCHANGED <<mode, codecVars, unitVars, histVars, ackVars, ctxVars, cacheVars, mctx_deleted, loopVars, row_in_batch,
                 did_flush, data_nodes, slotVars, flushVars, chunks, connVars,
                 passHist, begin_count, undersized, copy_in_at_entry, reqHist,
                 end_count>>

(* ------------------------------------------------------------------ *)
(* The connections of the load                                          *)
(* ------------------------------------------------------------------ *)

\* The status a connection handed out by remote_dist_txn_get_connection may
\* be in.  The dist_txn layer stops a COPY on the connection it hands out
\* (comment of lines 76-80), so CONN_COPY_IN is not among them.
FreshStatus == {"CONN_IDLE", "CONN_PROCESSING", "CONN_ERROR"}

\* remote_dist_txn_get_connection: the connection of the identity.
remote_dist_txn_get_connection(id) == id

\* Mutant: the cache is never hit.
LookupByServer_Miss(list, server) == 0

\* Lines 1191-1199: the first cached entry of the server, 0 if none.  The
\* entries are compared on the server id only.
LookupByServer(list, server) ==
  IF \E i \in 1..Len(list) : list[i].id[1] = server
  THEN CHOOSE i \in 1..Len(list) :
         /\ list[i].id[1] = server
         /\ \A j \in 1..(i - 1) : list[j].id[1] # server
  ELSE 0

\* Lines 281-291: the first cached entry with the server id and user id.
LookupById(list, id) ==
  IF \E i \in 1..Len(list) : list[i].id[1] = id[1] /\ list[i].id[2] = id[2]
  THEN CHOOSE i \in 1..Len(list) :
         /\ list[i].id[1] = id[1] /\ list[i].id[2] = id[2]
         /\ \A j \in 1..(i - 1) : ~(list[j].id[1] = id[1] /\ list[j].id[2] = id[2])
  ELSE 0

\* Mutant: the connection is appended without the membership test.
AddInUse_Always(list, conn) == Append(list, conn)

\* Lines 1242-1246 and 327-337: add to connections_in_use unless a member.
AddInUse(list, conn) ==
  IF list_member(list, conn) THEN list ELSE Append(list, conn)

\* remote_connection_begin_copy succeeded on conn: COPY_IN, non-blocking.
BeginCopy(conn, st) ==
  /\ status' = [st EXCEPT ![conn] = "CONN_COPY_IN"]
  /\ nonblocking' = [nonblocking EXCEPT ![conn] = TRUE]
  /\ begin_count' = [begin_count EXCEPT ![conn] = @ + 1]

\* History: an upload was ended on each connection of the set.
CountEnded(count, ended) ==
  [c \in Conns |-> IF c \in ended THEN count[c] + 1 ELSE count[c]]

\* History: the identity asked for and the connection the cache answered.
LogRequest(id, conn) ==
  /\ last_request' = [id |-> id, conn |-> conn]
  /\ first_conn' = IF first_conn[id] = NoConn
                   THEN [first_conn EXCEPT ![id] = conn]
                   ELSE first_conn

(* ------------------------------------------------------------------ *)
(* remote_copy_process_and_send_data: connections and sending           *)
(* ------------------------------------------------------------------ *)

\* Mutant: every status but idle is taken as ready to use.
ReadyToUse_NotIdle(s) == TRUE

\* Line 1248: the connection is in COPY_IN already, ready to use.
ReadyToUse(s) == s = "CONN_COPY_IN"

\* One iteration of the loop of lines 1186-1262: find or open the
\* connection of the data node, then begin COPY on it if it is idle.
ConnectNode ==
  /\ pc = "connect"
  /\ dn_idx <= Len(data_nodes)
  /\ LET server == data_nodes[dn_idx].server_oid
         i == LookupByServer(data_node_connections, server)
         required_id == remote_connection_id(server, GetUserId)
         conn == IF i # 0 THEN data_node_connections[i].connection
                 ELSE remote_dist_txn_get_connection(required_id)
     IN
     /\ data_node_connections' =
          IF i # 0 THEN data_node_connections
          ELSE Append(data_node_connections, [id |-> required_id, connection |-> conn])
     /\ LogRequest(required_id, conn)
     /\ data_nodes' = [data_nodes EXCEPT ![dn_idx].connection = conn]
     /\ \E s \in (IF i # 0 THEN {status[conn]} ELSE FreshStatus) :
          LET st == [status EXCEPT ![conn] = s] IN
          \/ /\ s = "CONN_IDLE"
             /\ BeginCopy(conn, st)
             /\ connections_in_use' = AddInUse(connections_in_use, conn)
             /\ dn_idx' = dn_idx + 1
             /\ Goto("connect")
          \/ /\ s = "CONN_IDLE"
             /\ status' = st
             /\ Raise("begin_copy_failed")
             /\ UNCHANGED <<nonblocking, begin_count, connections_in_use, dn_idx>>
          \/ /\ s # "CONN_IDLE"
             /\ ReadyToUse(s)
             /\ status' = st
             /\ dn_idx' = dn_idx + 1
             /\ Goto("connect")
             /\ UNCHANGED <<nonblocking, begin_count, connections_in_use>>
          \/ /\ s # "CONN_IDLE"
             /\ ~ReadyToUse(s)
             /\ status' = st
             /\ Raise("wrong_status")
             /\ UNCHANGED <<nonblocking, begin_count, connections_in_use, dn_idx>>
  /\ UNCHANGED <<mode, codecVars, unitVars, histVars, ackVars, ctxVars, mctx_deleted, loopVars, row_in_batch, did_flush,
                 slotVars, flushVars, chunks, passHist, undersized,
                 copy_in_at_entry,
                 end_count>>

\* Every data node has its connection: go on to send (line 1263).
ConnectEnd ==
  /\ pc = "connect"
  /\ dn_idx > Len(data_nodes)
  /\ dn_idx' = 1
  /\ Goto("send")
  /\ UNCHANGED <<mode, codecVars, unitVars, histVars, ackVars, ctxVars, cacheVars, mctx_deleted, loopVars, row_in_batch,
                 did_flush, data_nodes, slotVars, flushVars, chunks, connVars,
                 passHist, begin_count, undersized, copy_in_at_entry, reqHist,
                 end_count>>

\* Mutant: every row of the batch is appended, whatever the node.
CopyData_AllRows(dn) == batch_rows

\* Lines 1275-1280: the rows of the data node, in the order of its indices.
CopyData(dn) ==
  [k \in 1..Len(dn.row_indices) |-> batch_rows[dn.row_indices[k]]]

\* One iteration of the loop of lines 1270-1302: the rows of one data node
\* go out in one PQputCopyData, which succeeds or returns -1.  (The result
\* 0, "would block", is not drawn: see the comment of lines 1284-1286.)
SendNode ==
  /\ pc = "send"
  /\ dn_idx <= Len(data_nodes)
  /\ LET dn == data_nodes[dn_idx] IN
     \/ /\ pass_puts' = Append(pass_puts, [conn |-> dn.connection,
                                           rows |-> CopyData(dn),
                                           st |-> status[dn.connection]])
        /\ pushed' = Push(pushed, dn.server_oid, RowIds(CopyData(dn)))
        /\ dn_idx' = dn_idx + 1
        /\ Goto("send")
     \/ /\ Raise("put_copy_data_failed")
        /\ UNCHANGED <<pass_puts, dn_idx, pushed>>
  /\ UNCHANGED <<mode, codecVars, unitVars, tracking, source, ackVars, ctxVars, cacheVars, mctx_deleted, loopVars, row_in_batch,
                 did_flush, data_nodes, slotVars, flushVars, chunks, connVars,
                 pass_flushes, pass_missing, pass_creates, begin_count,
                 undersized, copy_in_at_entry, reqHist,
                 end_count>>

\* Mutant: the count is assigned, not added to.
CountProcessed_Assign(count, n) == n

\* Line 1355: the rows of the batch are counted.
CountProcessed(count, n) == count + n

\* Mutant: the batch is not emptied after a pass.
ResetBatch_Keep == UNCHANGED ctxVars

\* Lines 1356-1358: the batch is emptied.
ResetBatch ==
  /\ batch_rows' = << >>
  /\ batch_points' = << >>
  /\ current_batch_rows' = 0
  /\ current_batch_bytes' = 0

\* remote_copy_process_and_send_data returns (line 1304); lines 1355-1363
\* count the batch, empty it and leave the loop at the end of the source,
\* where line 1374 calls remote_copy_end.
SendEnd ==
  /\ pc = "send"
  /\ dn_idx > Len(data_nodes)
  /\ processed' = CountProcessed(processed, current_batch_rows)
  /\ ResetBatch
  /\ row_in_batch' = 0
  /\ did_flush' = FALSE
  /\ data_nodes' = << >>
  /\ dn_idx' = 0
  /\ pass_flushes' = 0
  /\ pass_missing' = FALSE
  /\ pass_creates' = 0
  /\ pass_puts' = << >>
  /\ IF eof
     THEN /\ ctx' = "end"
          /\ copy_end_calls' = copy_end_calls + 1
          /\ pc' = "flush_mark"
          /\ UNCHANGED <<first_error, error>>
     ELSE Goto("read")
  /\ UNCHANGED <<mode, codecVars, unitVars, histVars, ackVars, cacheVars, mctx_deleted, eof, rows_read, slotVars,
                 flushVars, chunks, connVars, begin_count, undersized,
                 copy_in_at_entry, reqHist,
                 end_count>>

(* ------------------------------------------------------------------ *)
(* flush_active_connections                                             *)
(* ------------------------------------------------------------------ *)

\* The function's local lists are gone when it returns or raises.
ClearFlush ==
  /\ to_end_copy' = << >>
  /\ to_flush' = << >>
  /\ to_flush_next' = << >>
  /\ wait_events' = << >>
  /\ rounds' = 0

\* Mutant: the connections are not marked CONN_PROCESSING (line 390).
RECURSIVE EndCopyLoop_KeepStatus(_, _, _, _)
EndCopyLoop_KeepStatus(list, st, acc, failAt) ==
  IF list = << >>
  THEN [st |-> st, to_end_copy |-> acc, failed |-> FALSE]
  ELSE IF st[Head(list)] # "CONN_COPY_IN" \/ list_member(acc, Head(list))
       THEN EndCopyLoop_KeepStatus(Tail(list), st, acc, failAt)
       ELSE IF Len(acc) + 1 = failAt
            THEN [st |-> st, to_end_copy |-> acc, failed |-> TRUE]
            ELSE EndCopyLoop_KeepStatus(Tail(list), st, Append(acc, Head(list)), failAt)

\* Mutant: the loop is left after the first connection in CONN_COPY_IN.
RECURSIVE EndCopyLoop_FirstOnly(_, _, _, _)
EndCopyLoop_FirstOnly(list, st, acc, failAt) ==
  IF list = << >> \/ acc # << >>
  THEN [st |-> st, to_end_copy |-> acc, failed |-> FALSE]
  ELSE IF st[Head(list)] # "CONN_COPY_IN"
       THEN EndCopyLoop_FirstOnly(Tail(list), st, acc, failAt)
       ELSE IF Len(acc) + 1 = failAt
            THEN [st |-> st, to_end_copy |-> acc, failed |-> TRUE]
            ELSE EndCopyLoop_FirstOnly(Tail(list),
                                       [st EXCEPT ![Head(list)] = "CONN_PROCESSING"],
                                       Append(acc, Head(list)), failAt)

\* Mutant: the status of the connection is not looked at (line 358).
RECURSIVE EndCopyLoop_NoSkip(_, _, _, _)
EndCopyLoop_NoSkip(list, st, acc, failAt) ==
  IF list = << >>
  THEN [st |-> st, to_end_copy |-> acc, failed |-> FALSE]
  ELSE IF Len(acc) + 1 = failAt
       THEN [st |-> st, to_end_copy |-> acc, failed |-> TRUE]
       ELSE EndCopyLoop_NoSkip(Tail(list),
                               [st EXCEPT ![Head(list)] = "CONN_PROCESSING"],
                               Append(acc, Head(list)), failAt)

\* The loop of lines 353-391 over the list: a connection that is not in
\* CONN_COPY_IN is skipped; the failAt-th connection found in CONN_COPY_IN
\* fails (lines 371-388) and the loop is left; the others get the end-of-copy
\* marker and become CONN_PROCESSING.  failAt = 0: none fails.
RECURSIVE EndCopyLoop(_, _, _, _)
EndCopyLoop(list, st, acc, failAt) ==
  IF list = << >>
  THEN [st |-> st, to_end_copy |-> acc, failed |-> FALSE]
  ELSE IF st[Head(list)] # "CONN_COPY_IN"
       THEN EndCopyLoop(Tail(list), st, acc, failAt)
       ELSE IF Len(acc) + 1 = failAt
            THEN [st |-> st, to_end_copy |-> acc, failed |-> TRUE]
            ELSE EndCopyLoop(Tail(list),
                             [st EXCEPT ![Head(list)] = "CONN_PROCESSING"],
                             Append(acc, Head(list)), failAt)

\* The connections of the list found in CONN_COPY_IN.
CopyInOf(list) == {list[i] : i \in {j \in 1..Len(list) : status[list[j]] = "CONN_COPY_IN"}}

\* The flush started by the routing loop returns into the pass and keeps
\* its frame.  Once an error has left the PG_TRY block, the locals of
\* remote_copy_process_and_send_data are gone and the batch is dead data:
\* nothing reads it again and remote_copy_end frees it with the context.
FrameOfPass ==
  IF ctx = "try"
  THEN UNCHANGED <<ctxVars, passVars, passHist>>
  ELSE /\ ResetBatch
       /\ row_in_batch' = 0
       /\ did_flush' = FALSE
       /\ data_nodes' = << >>
       /\ dn_idx' = 0
       /\ pass_flushes' = 0
       /\ pass_missing' = FALSE
       /\ pass_creates' = 0
       /\ pass_puts' = << >>

\* Lines 351-391: the end-of-copy marker on every connection in COPY_IN.
FlushMark ==
  /\ pc = "flush_mark"
  /\ copy_in_at_entry' = CopyInOf(connections_in_use)
  /\ FrameOfPass
  /\ \/ LET r == EndCopyLoop(connections_in_use, status, << >>, 0) IN
        /\ status' = r.st
        /\ end_count' = CountEnded(end_count, Range(r.to_end_copy))
        /\ to_end_copy' = r.to_end_copy
        /\ to_flush' = r.to_end_copy
        /\ to_flush_next' = << >>
        /\ wait_events' = << >>
        /\ rounds' = 0
        /\ unverified' = unverified \cup Range(r.to_end_copy)
        /\ Goto("flush_drain")
     \/ \E failAt \in 1..Cardinality(CopyInOf(connections_in_use)) :
          \E e \in {"no_copy_in_progress", "put_copy_end_failed"} :
            /\ status' = EndCopyLoop(connections_in_use, status, << >>, failAt).st
            /\ end_count' = CountEnded(end_count,
                  Range(EndCopyLoop(connections_in_use, status, << >>, failAt).to_end_copy))
            /\ unverified' = unverified \cup
                  Range(EndCopyLoop(connections_in_use, status, << >>, failAt).to_end_copy)
            /\ ClearFlush
            /\ Raise(e)
  /\ UNCHANGED <<mode, codecVars, unitVars, histVars, ack, cacheVars, mctx_deleted, loopVars,
                 slotVars, chunks, nonblocking, begin_count,
                 undersized, reqHist>>

\* What one connection does in one round of the loop of lines 414-460.
Busy == {"write_busy", "read_busy"}
Failed == {"flush_failed", "consume_failed"}
RoundOutcomes == Busy \cup Failed \cup {"done"}

\* Lines 436-437 and 454-455: the connections that were busy in the round,
\* and in parallel what each waits for.
RECURSIVE BusyConns(_, _)
BusyConns(list, out) ==
  IF list = << >> THEN << >>
  ELSE LET rest == BusyConns(Tail(list), [k \in 1..(Len(list) - 1) |-> out[k + 1]]) IN
       IF out[1] \in Busy THEN <<Head(list)>> \o rest ELSE rest

RECURSIVE BusyEvents(_, _)
BusyEvents(list, out) ==
  IF list = << >> THEN << >>
  ELSE LET rest == BusyEvents(Tail(list), [k \in 1..(Len(list) - 1) |-> out[k + 1]]) IN
       IF out[1] = "write_busy" THEN <<"WL_SOCKET_WRITEABLE">> \o rest
       ELSE IF out[1] = "read_busy" THEN <<"WL_SOCKET_READABLE">> \o rest
       ELSE rest

\* The ways the result of an ended COPY can be wrong (lines 551-570): no
\* result, a result that is not PGRES_COMMAND_OK, a result after the first.
BadResults == {"null_result", "error_result", "extra_result"}

\* What waits on a connection once PQisBusy is false (line 451): "ok" is
\* one PGRES_COMMAND_OK result and nothing after it, "bad" is anything else.
Acks == {"ok", "bad"}

\* The results of the connections of the list have arrived.
Arrived(list, a, res) ==
  [c \in Conns |-> IF list_member(list, c) THEN res[c] ELSE a[c]]

\* CHECK_FOR_INTERRUPTS() of line 411 with a cancel pending.
FlushInterrupt ==
  /\ pc = "flush_drain"
  /\ ClearFlush
  /\ Raise("cancel")
  /\ UNCHANGED <<mode, codecVars, unitVars, histVars, ackVars, ctxVars, cacheVars, mctx_deleted, loopVars, passVars,
                 slotVars, chunks, connVars, passHist, begin_count, undersized,
                 copy_in_at_entry, reqHist,
                 end_count>>

\* One round of the loop of lines 409-466: every connection of to_flush is
\* flushed and, when its buffer is out, read; the round ends the loop when
\* no connection was busy.
FlushRound ==
  /\ pc = "flush_drain"
  /\ \E out \in [1..Len(to_flush) -> {"done"} \cup (IF rounds < MaxRounds THEN Busy ELSE {})] :
       /\ to_flush_next' = to_flush_next \o BusyConns(to_flush, out)
       /\ wait_events' = wait_events \o BusyEvents(to_flush, out)
       /\ IF Len(to_flush_next \o BusyConns(to_flush, out)) = 0
          THEN /\ \E res \in [Range(to_end_copy) -> Acks] :
                    ack' = Arrived(to_end_copy, ack, res)
               /\ Goto("flush_cleanup")
          ELSE /\ ack' = ack
               /\ Goto("flush_wait")
  /\ UNCHANGED <<mode, codecVars, unitVars, histVars, unverified, ctxVars, cacheVars, mctx_deleted, loopVars, passVars,
                 slotVars, to_end_copy, to_flush, rounds, chunks, connVars,
                 passHist, begin_count, undersized, copy_in_at_entry, reqHist,
                 end_count>>

\* A round in which PQflush returns -1 (lines 422-427) or PQconsumeInput
\* fails (lines 444-449) on some connection.
FlushRoundFails ==
  /\ pc = "flush_drain"
  /\ to_flush # << >>
  /\ \E e \in Failed :
       /\ ClearFlush
       /\ Raise(e)
  /\ UNCHANGED <<mode, codecVars, unitVars, histVars, ackVars, ctxVars, cacheVars, mctx_deleted, loopVars, passVars,
                 slotVars, chunks, connVars, passHist, begin_count, undersized,
                 copy_in_at_entry, reqHist,
                 end_count>>

\* Lines 473-510: wait for the busy connections, then swap the lists and
\* truncate to_flush_next and wait_events.
FlushWait ==
  /\ pc = "flush_wait"
  /\ to_flush' = to_flush_next
  /\ to_flush_next' = << >>
  /\ wait_events' = << >>
  /\ rounds' = rounds + 1
  /\ Goto("flush_drain")
  /\ UNCHANGED <<mode, codecVars, unitVars, histVars, ackVars, ctxVars, cacheVars, mctx_deleted, loopVars, passVars,
                 slotVars, to_end_copy, chunks, connVars, passHist, begin_count,
                 undersized, copy_in_at_entry, reqHist,
                 end_count>>

\* Mutant: the connections are not switched back to blocking mode.
CleanupBlocking_Keep(list, nb, failAt) == nb

\* Mutant: only the first connection of the list is marked idle.
CleanupStatus_FirstOnly(list, st, failAt) ==
  [c \in Conns |-> IF list # << >> /\ list[1] = c THEN "CONN_IDLE" ELSE st[c]]

\* Lines 517-537 up to the failAt-th connection: each is marked idle, then
\* switched to blocking mode; the switch fails on the failAt-th.
CleanupStatus(list, st, failAt) ==
  [c \in Conns |->
     IF \E i \in 1..Len(list) : list[i] = c /\ (failAt = 0 \/ i <= failAt)
     THEN "CONN_IDLE" ELSE st[c]]

CleanupBlocking(list, nb, failAt) ==
  [c \in Conns |->
     IF \E i \in 1..Len(list) : list[i] = c /\ (failAt = 0 \/ i < failAt)
     THEN FALSE ELSE nb[c]]

\* Lines 513-537: the connections are marked idle and made blocking.
FlushCleanup ==
  /\ pc = "flush_cleanup"
  /\ \/ /\ status' = CleanupStatus(to_end_copy, status, 0)
        /\ nonblocking' = CleanupBlocking(to_end_copy, nonblocking, 0)
        /\ Goto("flush_verify")
        /\ UNCHANGED flushVars
     \/ \E failAt \in 1..Len(to_end_copy) :
          /\ status' = CleanupStatus(to_end_copy, status, failAt)
          /\ nonblocking' = CleanupBlocking(to_end_copy, nonblocking, failAt)
          /\ ClearFlush
          /\ Raise("set_blocking_failed")
  /\ UNCHANGED <<mode, codecVars, unitVars, histVars, ackVars, ctxVars, cacheVars, mctx_deleted, loopVars, passVars,
                 slotVars, chunks, passHist, begin_count, undersized,
                 copy_in_at_entry, reqHist,
                 end_count>>

\* Mutant: the results are read but not looked at.
FirstBad_Blind(list, a) == 0

\* Lines 542-571: the first connection of the list whose result is not one
\* PGRES_COMMAND_OK followed by nothing, 0 if there is none.
FirstBad(list, a) ==
  IF \E i \in 1..Len(list) : a[list[i]] # "ok"
  THEN CHOOSE i \in 1..Len(list) :
         /\ a[list[i]] # "ok"
         /\ \A j \in 1..(i - 1) : a[list[j]] = "ok"
  ELSE 0

\* The PQgetResult calls of the loop take the results of the connections up
\* to the k-th one, on which the loop raises; with k = 0 those of all.
ReadResults(list, a, k) ==
  [c \in Conns |->
     IF \E i \in 1..Len(list) : list[i] = c /\ (k = 0 \/ i <= k)
     THEN "none" ELSE a[c]]

\* The connections whose result the loop has read, and that was one
\* PGRES_COMMAND_OK with nothing after it.
VerifiedOk(list, a, k) ==
  {list[i] : i \in {j \in 1..Len(list) : (k = 0 \/ j < k) /\ a[list[j]] = "ok"}}

\* Lines 539-574: the result of every ended COPY is verified; the function
\* returns to the routing loop (line 1132) or into remote_copy_end (line
\* 1311).
FlushVerify ==
  /\ pc = "flush_verify"
  /\ ClearFlush
  /\ LET k == FirstBad(to_end_copy, ack) IN
     /\ ack' = ReadResults(to_end_copy, ack, k)
     /\ unverified' = unverified \ VerifiedOk(to_end_copy, ack, k)
     /\ IF k = 0
        THEN IF ctx = "try"
             THEN /\ did_flush' = TRUE
                  /\ Goto("create")
             ELSE /\ did_flush' = did_flush
                  /\ Goto("end_copy")
        ELSE /\ \E e \in BadResults : Raise(e)
             /\ UNCHANGED did_flush
  /\ UNCHANGED <<mode, codecVars, unitVars, histVars, ctxVars, cacheVars, mctx_deleted, loopVars, row_in_batch,
                 data_nodes, dn_idx, slotVars, chunks, connVars, passHist,
                 begin_count, undersized, copy_in_at_entry, reqHist,
                 end_count>>

(* ------------------------------------------------------------------ *)
(* end_copy_on_data_nodes and the end of remote_copy_end                *)
(* ------------------------------------------------------------------ *)

\* Lines 583-590: remote_connection_end_copy on every connection in
\* COPY_IN; it leaves the connection idle when it succeeds and in an error
\* status when it fails.
EndCopyStatus(list, st, fails) ==
  [c \in Conns |->
     IF list_member(list, c) /\ st[c] = "CONN_COPY_IN"
     THEN (IF c \in fails THEN "CONN_ERROR" ELSE "CONN_IDLE")
     ELSE st[c]]

\* Lines 1311-1312 and what follows the call of remote_copy_end: the normal
\* path returns the count (line 1377), the PG_CATCH block re-throws the
\* error it caught (line 1370).
EndCopyOnDataNodes ==
  /\ pc = "end_copy"
  /\ \E fails \in SUBSET CopyInOf(connections_in_use) :
       /\ status' = EndCopyStatus(connections_in_use, status, fails)
       /\ IF fails # {}
          THEN /\ Raise("end_copy_failed")
               /\ UNCHANGED mctx_deleted
          ELSE /\ mctx_deleted' = TRUE
               /\ IF ctx = "catch"
                  THEN /\ pc' = "raised"
                       /\ error' = first_error
                       /\ UNCHANGED <<ctx, first_error, copy_end_calls>>
                  ELSE Goto("done")
  /\ end_count' = CountEnded(end_count, CopyInOf(connections_in_use))
  /\ UNCHANGED <<mode, codecVars, unitVars, histVars, ackVars, ctxVars, cacheVars, loopVars, passVars, slotVars,
                 flushVars, chunks, nonblocking, passHist, begin_count,
                 undersized, copy_in_at_entry, reqHist>>

(* ------------------------------------------------------------------ *)
(* remote_copy_send_slot: the per-row path                              *)
(* ------------------------------------------------------------------ *)

\* The caller hands over a row of a chunk that lives on some data nodes, to
\* be written as some user (cis->chunk_data_nodes, cis->user_id); the row is
\* serialised and the PG_TRY block of line 1445 is entered.
SlotBegin ==
  /\ pc = "slot"
  /\ slots_sent < MaxSlots
  /\ \E nl \in NodeLists, u \in Users :
       /\ slot_nodes' = nl
       /\ slot_user' = u
  /\ slot_conns' = << >>
  /\ slots_sent' = slots_sent + 1
  /\ dn_idx' = 1
  /\ pass_puts' = << >>
  /\ ctx' = "try"
  /\ pc' = "slot_connect"
  /\ UNCHANGED <<mode, codecVars, unitVars, histVars, ackVars, ctxVars, cacheVars, mctx_deleted, loopVars, row_in_batch,
                 did_flush, data_nodes, flushVars, chunks, connVars,
                 first_error, error, copy_end_calls, pass_flushes, pass_missing,
                 pass_creates, begin_count, undersized, copy_in_at_entry,
                 reqHist,
                 end_count>>

\* One iteration of the loop of create_connection_list_for_chunk (lines
\* 274-339): find or open the connection of the identity, fail if it is in
\* CONN_PROCESSING, begin COPY on it if it is idle.
SlotConnect ==
  /\ pc = "slot_connect"
  /\ dn_idx <= Len(slot_nodes)
  /\ LET required_id == remote_connection_id(slot_nodes[dn_idx], slot_user)
         i == LookupById(data_node_connections, required_id)
         conn == IF i # 0 THEN data_node_connections[i].connection
                 ELSE remote_dist_txn_get_connection(required_id)
     IN
     /\ data_node_connections' =
          IF i # 0 THEN data_node_connections
          ELSE Append(data_node_connections, [id |-> required_id, connection |-> conn])
     /\ LogRequest(required_id, conn)
     /\ slot_conns' = Append(slot_conns, conn)
     /\ \E s \in (IF i # 0 THEN {status[conn]} ELSE FreshStatus) :
          LET st == [status EXCEPT ![conn] = s] IN
          \/ /\ s = "CONN_PROCESSING"
             /\ status' = st
             /\ Raise("wrong_status")
             /\ UNCHANGED <<nonblocking, begin_count, connections_in_use, dn_idx>>
          \/ /\ s = "CONN_IDLE"
             /\ BeginCopy(conn, st)
             /\ connections_in_use' = AddInUse(connections_in_use, conn)
             /\ dn_idx' = dn_idx + 1
             /\ Goto("slot_connect")
          \/ /\ s = "CONN_IDLE"
             /\ status' = st
             /\ Raise("begin_copy_failed")
             /\ UNCHANGED <<nonblocking, begin_count, connections_in_use, dn_idx>>
          \/ /\ s \notin {"CONN_PROCESSING", "CONN_IDLE"}
             /\ status' = st
             /\ dn_idx' = dn_idx + 1
             /\ Goto("slot_connect")
             /\ UNCHANGED <<nonblocking, begin_count, connections_in_use>>
  /\ UNCHANGED <<mode, codecVars, unitVars, histVars, ackVars, ctxVars, mctx_deleted, loopVars, row_in_batch, did_flush,
                 data_nodes, slot_nodes, slot_user, slots_sent, flushVars,
                 chunks, passHist, undersized, copy_in_at_entry,
                 end_count>>

\* The list of connections is complete (line 341): send_copy_data starts.
SlotConnectEnd ==
  /\ pc = "slot_connect"
  /\ dn_idx > Len(slot_nodes)
  /\ dn_idx' = 1
  /\ Goto("slot_send")
  /\ UNCHANGED <<mode, codecVars, unitVars, histVars, ackVars, ctxVars, cacheVars, mctx_deleted, loopVars, row_in_batch,
                 did_flush, data_nodes, slotVars, flushVars, chunks, connVars,
                 passHist, begin_count, undersized, copy_in_at_entry, reqHist,
                 end_count>>

\* One iteration of the loop of send_copy_data (lines 1076-1083): the row is
\* put on the connection, and remote_connection_put_copy_data succeeds or
\* fails.
SlotPut ==
  /\ pc = "slot_send"
  /\ dn_idx <= Len(slot_conns)
  /\ pass_puts' = Append(pass_puts, [conn |-> slot_conns[dn_idx],
                                     rows |-> <<[id |-> slots_sent, len |-> 1]>>,
                                     st |-> status[slot_conns[dn_idx]]])
  /\ \/ /\ dn_idx' = dn_idx + 1
        /\ Goto("slot_send")
     \/ /\ Raise("put_copy_data_failed")
        /\ UNCHANGED dn_idx
  /\ UNCHANGED <<mode, codecVars, unitVars, histVars, ackVars, ctxVars, cacheVars, mctx_deleted, loopVars, row_in_batch,
                 did_flush, data_nodes, slotVars, flushVars, chunks, connVars,
                 pass_flushes, pass_missing, pass_creates, begin_count,
                 undersized, copy_in_at_entry, reqHist,
                 end_count>>

\* remote_copy_send_slot returns to its caller (line 1463).
SlotReturn ==
  /\ pc = "slot_send"
  /\ dn_idx > Len(slot_conns)
  /\ slot_nodes' = << >>
  /\ slot_user' = 0
  /\ slot_conns' = << >>
  /\ dn_idx' = 0
  /\ pass_puts' = << >>
  /\ ctx' = "caller"
  /\ pc' = "slot"
  /\ UNCHANGED <<mode, codecVars, unitVars, histVars, ackVars, ctxVars, cacheVars, mctx_deleted, loopVars, row_in_batch,
                 did_flush, data_nodes, slots_sent, flushVars, chunks, connVars,
                 first_error, error, copy_end_calls, pass_flushes, pass_missing,
                 pass_creates, begin_count, undersized, copy_in_at_entry,
                 reqHist,
                 end_count>>

\* Between two rows the caller creates a chunk through the dist_txn layer,
\* which ends the COPY on the connections it uses: they are idle afterwards
\* and still in connections_in_use (comments of lines 76-85 and 329-335).
SlotChunkCreated ==
  /\ pc = "slot"
  /\ CopyInOf(connections_in_use) # {}
  /\ status' = [c \in Conns |->
                  IF c \in CopyInOf(connections_in_use) THEN "CONN_IDLE" ELSE status[c]]
  /\ nonblocking' = [c \in Conns |->
                       IF c \in CopyInOf(connections_in_use) THEN FALSE ELSE nonblocking[c]]
  /\ Goto("slot")
  /\ end_count' = CountEnded(end_count, CopyInOf(connections_in_use))
  /\ UNCHANGED <<mode, codecVars, unitVars, histVars, ackVars, ctxVars, cacheVars, mctx_deleted, loopVars, passVars,
                 slotVars, flushVars, chunks, passHist, begin_count, undersized,
                 copy_in_at_entry, reqHist>>

\* The caller ends the load: remote_copy_end (line 1308).
SlotEnd ==
  /\ pc = "slot"
  /\ ctx' = "end"
  /\ copy_end_calls' = copy_end_calls + 1
  /\ pc' = "flush_mark"
  /\ UNCHANGED <<mode, codecVars, unitVars, histVars, ackVars, ctxVars, cacheVars, mctx_deleted, loopVars, passVars,
                 slotVars, flushVars, chunks, connVars, first_error, error,
                 passHist, begin_count, undersized, copy_in_at_entry, reqHist,
                 end_count>>

(* ------------------------------------------------------------------ *)
(* The load                                                             *)
(* ------------------------------------------------------------------ *)

Next ==
  \/ ReadRow
  \/ ReadEof
  \/ ReadNullKey
  \/ LoopInterrupt
  \/ RouteRowFound
  \/ RouteRowMissing
  \/ CreateChunk
  \/ RouteEnd
  \/ ConnectNode
  \/ ConnectEnd
  \/ SendNode
  \/ SendEnd
  \/ FlushMark
  \/ FlushInterrupt
  \/ FlushRound
  \/ FlushRoundFails
  \/ FlushWait
  \/ FlushCleanup
  \/ FlushVerify
  \/ EndCopyOnDataNodes
  \/ SlotBegin
  \/ SlotConnect
  \/ SlotConnectEnd
  \/ SlotPut
  \/ SlotReturn
  \/ SlotChunkCreated
  \/ SlotEnd

Spec == Init /\ [][Next]_vars

(* ------------------------------------------------------------------ *)
(* Properties                                                           *)
(* ------------------------------------------------------------------ *)

\* Control is inside remote_copy_process_and_send_data, called from the
\* batching loop.
InPass == mode = "batch" /\ ctx = "try" /\ pc # "read"

\* The connections of the load.
LoadConns ==
  {data_node_connections[i].connection : i \in 1..Len(data_node_connections)}
    \cup Range(connections_in_use)

RECURSIVE SumLen(_)
SumLen(rows) == IF rows = << >> THEN 0 ELSE Head(rows).len + SumLen(Tail(rows))

\* C1: a batch is sent out exactly when, after a read attempt, the source is
\* exhausted or the batch holds MAX_BATCH_ROWS rows or at least
\* MAX_BATCH_BYTES bytes: the loop is about to read only with a batch under
\* both thresholds (so the assertion of line 1061 holds), a batch in the send
\* stage has reached a threshold or the source has ended, the batch never
\* holds more than MAX_BATCH_ROWS rows, and a batch under both thresholds is
\* sent at most once, at the end of the source.
C1_BatchDispatch ==
  /\ current_batch_rows <= MAX_BATCH_ROWS
  /\ (mode = "batch" /\ pc = "read") =>
       (current_batch_rows < MAX_BATCH_ROWS /\ current_batch_bytes < MAX_BATCH_BYTES)
  /\ InPass =>
       (eof \/ current_batch_rows = MAX_BATCH_ROWS \/ current_batch_bytes >= MAX_BATCH_BYTES)
  /\ undersized <= 1
  /\ (undersized = 1) => eof

\* A batch sent out because it is full of rows, before the source ends.
C1_Witness ==
  /\ InPass /\ pc = "send"
  /\ ~eof
  /\ current_batch_rows = MAX_BATCH_ROWS
  /\ current_batch_bytes < MAX_BATCH_BYTES

C3_ProcessedCount ==
  /\ (mode = "batch" /\ ctx = "try") => processed + current_batch_rows = rows_read
  /\ (mode = "batch" /\ pc = "done") => processed = rows_read

\* A load that returns after the source ended right after a full batch.
C3_Witness ==
  /\ mode = "batch" /\ pc = "done"
  /\ processed = MAX_BATCH_ROWS
  /\ rows_read = MAX_BATCH_ROWS

\* C4: remote_copy_end is called exactly once in a load that got past
\* remote_copy_begin: never twice, and once when the load has returned or
\* raised.
C4_CopyEndOnce ==
  /\ copy_end_calls <= 1
  /\ (mode = "batch" /\ pc \in {"done", "raised"}) => copy_end_calls = 1

\* A load cancelled in the loop, whose error has reached the caller.
C4_Witness ==
  /\ mode = "batch" /\ pc = "raised"
  /\ first_error = "cancel" /\ error = "cancel"
  /\ copy_end_calls = 1

\* C5: in one pass flush_active_connections is called at most once, and it is
\* called if and only if some row of the batch found no chunk; a chunk is
\* created only after it.
C5_FlushCoalesced ==
  /\ pass_flushes <= 1
  /\ pass_missing <=> (pass_flushes = 1)
  /\ (pass_creates >= 1 \/ pc = "create") => pass_flushes = 1

\* A pass that created two chunks after one flush.
C5_Witness ==
  /\ InPass
  /\ pass_creates = 2
  /\ pass_flushes = 1

\* C6: whenever ts_hypertable_create_chunk_for_point is called, no connection
\* of the load is in CONN_COPY_IN or CONN_PROCESSING.
C6_NoCopyAtCreate ==
  pc = "create" =>
    \A c \in LoadConns : status[c] \notin {"CONN_COPY_IN", "CONN_PROCESSING"}

\* The second chunk of a pass is about to be created, and the flush of the
\* pass found connections in COPY_IN.
C6_Witness ==
  /\ pc = "create"
  /\ pass_creates = 1
  /\ copy_in_at_entry # {}

\* C7: when flush_active_connections has returned, every connection that was
\* in CONN_COPY_IN when it was entered is idle, in blocking mode and still in
\* connections_in_use.
C7_FlushLeavesIdle ==
  pc \in {"create", "end_copy"} =>
    \A c \in copy_in_at_entry :
      /\ status[c] = "CONN_IDLE"
      /\ ~nonblocking[c]
      /\ list_member(connections_in_use, c)

\* A flush of two connections in COPY_IN has returned to the routing loop.
C7_Witness ==
  /\ pc = "create"
  /\ pass_creates = 0
  /\ Cardinality(copy_in_at_entry) = 2

\* C8: data_node_connections holds at most one entry per identity, each entry
\* holds the connection of its identity, and every request is answered with
\* the connection cached at the first request of the identity.
C8_OneConnectionPerIdentity ==
  /\ \A i, j \in 1..Len(data_node_connections) :
       data_node_connections[i].id = data_node_connections[j].id => i = j
  /\ \A i \in 1..Len(data_node_connections) :
       first_conn[data_node_connections[i].id] = data_node_connections[i].connection
  /\ last_request # NoRequest =>
       last_request.conn = first_conn[last_request.id]

\* An identity asked for again after its upload was ended and begun anew.
C8_Witness ==
  /\ last_request # NoRequest
  /\ begin_count[last_request.conn] >= 2
  /\ Len(data_node_connections) >= 2

\* C9 as stated: remote_connection_begin_copy is called at most once per
\* connection in a load.
C9_Original ==
  \A c \in Conns : begin_count[c] <= 1

\* C9 amended: on every connection begin-copy commands and ended uploads
\* alternate: the commands issued are the uploads ended, plus one while the
\* connection is in CONN_COPY_IN.
C9_BeginPerUpload ==
  \A c \in Conns :
    begin_count[c] = end_count[c] + (IF status[c] = "CONN_COPY_IN" THEN 1 ELSE 0)

\* A connection on which COPY was begun a second time by the batching loop.
C9_Witness ==
  /\ mode = "batch"
  /\ \E c \in Conns : begin_count[c] = 2 /\ status[c] = "CONN_COPY_IN"

\* C10: the status of every destination connection is checked before the
\* first PQputCopyData of the pass: nothing is put while the connections are
\* looked up, the sending starts only with every destination in
\* CONN_COPY_IN, and a pass that failed on a wrong status has put nothing.
C10_StatusCheckedBeforeSend ==
  /\ (InPass /\ pc = "connect") => pass_puts = << >>
  /\ (InPass /\ pc = "send") =>
       \A k \in 1..Len(data_nodes) : status[data_nodes[k].connection] = "CONN_COPY_IN"
  /\ (pc = "flush_mark" /\ ctx = "catch" /\ first_error = "wrong_status") =>
       pass_puts = << >>

\* A pass with two destinations failed on the status of the second one.
C10_Witness ==
  /\ mode = "batch"
  /\ pc = "flush_mark" /\ ctx = "catch" /\ first_error = "wrong_status"
  /\ Len(data_nodes) = 2
  /\ dn_idx = 2
  /\ status[data_nodes[1].connection] = "CONN_COPY_IN"

\* C11: row bytes are put on a connection only while it is in CONN_COPY_IN,
\* in the batch path and in the per-row path alike: every PQputCopyData of
\* the current pass or row found its connection in CONN_COPY_IN.
C11_PutOnlyInCopyIn ==
  \A k \in 1..Len(pass_puts) : pass_puts[k].st = "CONN_COPY_IN"

\* The rows of the batch whose chunk lists the server among its data nodes,
\* in batch order, from row i on.
RECURSIVE OwnedRows(_, _)
OwnedRows(server, i) ==
  IF i > Len(batch_rows)
  THEN << >>
  ELSE IF list_member(find_chunk_for_point(batch_points[i]), server)
       THEN <<batch_rows[i]>> \o OwnedRows(server, i + 1)
       ELSE OwnedRows(server, i + 1)

\* The servers that own some row of the batch.
OwnerServers == {s \in Nodes : OwnedRows(s, 1) # << >>}

\* C12: in the send loop of a pass every destination node has one entry in
\* data_nodes, the nodes served so far got one PQputCopyData each, and what
\* a node got is exactly the rows of the batch whose chunk lists the node, in
\* batch order; the destinations are the nodes that own some row.
C12_OneWritePerNode ==
  (InPass /\ pc = "send") =>
    /\ \A i, j \in 1..Len(data_nodes) :
         data_nodes[i].server_oid = data_nodes[j].server_oid => i = j
    /\ {data_nodes[k].server_oid : k \in 1..Len(data_nodes)} = OwnerServers
    /\ Len(pass_puts) = dn_idx - 1
    /\ \A k \in 1..Len(pass_puts) :
         /\ pass_puts[k].conn = data_nodes[k].connection
         /\ pass_puts[k].rows = OwnedRows(data_nodes[k].server_oid, 1)

\* Both nodes were served in a pass of three rows: one got all three rows,
\* the other only some of them.
C12_Witness ==
  /\ InPass /\ pc = "send"
  /\ Len(batch_rows) = 3
  /\ Len(pass_puts) = 2
  /\ Len(pass_puts[1].rows) = 2
  /\ Len(pass_puts[2].rows) = 3

\* Control is inside flush_active_connections.
InFlush == pc \in {"flush_mark", "flush_drain", "flush_wait", "flush_cleanup", "flush_verify"}

\* The running flush_active_connections found no connection of
\* connections_in_use in CONN_COPY_IN.
EmptyFlush ==
  \/ pc = "flush_mark" /\ CopyInOf(connections_in_use) = {}
  \/ pc \in {"flush_drain", "flush_wait", "flush_cleanup", "flush_verify"}
       /\ copy_in_at_entry = {}

\* The step raises an error.
RaiseStep == (pc' = "raised" /\ pc # "raised") \/ (ctx = "try" /\ ctx' = "catch")

\* The error the step raises.
RaisedError == IF pc' = "raised" THEN error' ELSE first_error'

\* The step makes no transport call and changes no connection: the lists
\* whose loops hold the calls (to_end_copy, to_flush, the wait set) stay
\* empty, the wait is not reached, status and blocking mode stay as they are.
QuietStep ==
  /\ status' = status
  /\ nonblocking' = nonblocking
  /\ to_end_copy' = << >> /\ to_flush' = << >>
  /\ to_flush_next' = << >> /\ wait_events' = << >>
  /\ pc' # "flush_wait"

\* C13 as stated: a flush_active_connections that finds no connection in
\* CONN_COPY_IN makes no transport call, changes no connection and raises no
\* error.
C13_Original ==
  [][(InFlush /\ EmptyFlush) => (QuietStep /\ ~RaiseStep)]_vars

\* C13 amended: such a flush makes no transport call and changes no
\* connection; the only error it can raise is the cancellation found by the
\* CHECK_FOR_INTERRUPTS of the drain loop, which runs once even when there
\* is nothing to drain.
C13_EmptyFlushQuiet ==
  [][(InFlush /\ EmptyFlush) => (QuietStep /\ (RaiseStep => RaisedError = "cancel"))]_vars

\* A flush that found its only connections in CONN_PROCESSING has returned
\* into remote_copy_end.
C13_Witness ==
  /\ pc = "end_copy"
  /\ copy_in_at_entry = {}
  /\ \E c \in Range(connections_in_use) : status[c] = "CONN_PROCESSING"

\* C14: when the verification loop of flush_active_connections raises on a
\* result that is missing, an error or followed by another result, every
\* connection of the working set is idle and in blocking mode: the cleanup
\* loop has gone over the whole set before the first result is looked at.
C14_VerifyErrorAfterCleanup ==
  ((pc = "flush_mark" /\ ctx = "catch" /\ first_error \in BadResults)
     \/ (pc = "raised" /\ error \in BadResults)) =>
    \A c \in copy_in_at_entry : status[c] = "CONN_IDLE" /\ ~nonblocking[c]

\* The flush of two connections, started by the routing loop, has raised on
\* an error result.
C14_Witness ==
  /\ pc = "flush_mark" /\ ctx = "catch"
  /\ first_error = "error_result"
  /\ Cardinality(copy_in_at_entry) = 2

\* C15: when a cancellation raised at one of the CHECK_FOR_INTERRUPTS of the
\* load (line 1338 or line 411) has reached the caller of
\* remote_distributed_copy, no connection on which the load began a COPY is
\* in CONN_COPY_IN or CONN_PROCESSING.
C15_CancelLeavesNoOpenCopy ==
  (mode = "batch" /\ pc = "raised" /\ first_error = "cancel" /\ error = "cancel") =>
    \A c \in Range(connections_in_use) :
      status[c] \notin {"CONN_COPY_IN", "CONN_PROCESSING"}

\* The transport failures of flush_active_connections: PQputCopyEnd in the
\* marker loop, PQflush and PQconsumeInput in the drain loop.
TransportFailures == {"put_copy_end_failed"} \cup Failed

\* The connections on which the load began a COPY and that are still in
\* CONN_COPY_IN or CONN_PROCESSING.
OpenCopies ==
  {c \in Range(connections_in_use) : status[c] \in {"CONN_COPY_IN", "CONN_PROCESSING"}}

\* C16: when a transport failure on one connection during
\* flush_active_connections has reached the caller, no connection other
\* than the failing one is left in CONN_COPY_IN or CONN_PROCESSING.
C16_FailureEndsOtherCopies ==
  (mode = "batch" /\ pc = "raised"
     /\ first_error \in TransportFailures /\ error = first_error) =>
    Cardinality(OpenCopies) <= 1

\* C17: the error the caller receives is the first error the load raised:
\* an error raised later, by remote_copy_end in the PG_CATCH block, does not
\* take its place.
C17_FirstErrorDelivered ==
  pc = "raised" => error = first_error

\* C18: when remote_distributed_copy returns the count no error was raised,
\* every connection of the load is idle and in blocking mode, every COPY
\* begun on it was ended (as many end-of-copy markers as begin-copy
\* commands), the result of every marker was found to be one
\* PGRES_COMMAND_OK with nothing after it, and no result is left unread.
C18_NoPartialSuccess ==
  (mode = "batch" /\ pc = "done") =>
    /\ first_error = "none" /\ error = "none"
    /\ unverified = {}
    /\ \A c \in LoadConns :
         /\ status[c] = "CONN_IDLE" /\ ~nonblocking[c]
         /\ begin_count[c] = end_count[c]
         /\ ack[c] = "none"
    /\ \A c \in Range(connections_in_use) : begin_count[c] >= 1

\* A load over two connections has returned, and on one of them COPY was
\* begun and ended twice.
C18_Witness ==
  /\ mode = "batch" /\ pc = "done"
  /\ Len(connections_in_use) = 2
  /\ \E c \in Range(connections_in_use) : begin_count[c] = 2 /\ end_count[c] = 2

(* ------------------------------------------------------------------ *)
(* Row encoding: validate_options, parse_next_text_row,                 *)
(* remote_copy_send_slot (text), generate_binary_copy_data              *)
(* ------------------------------------------------------------------ *)

MaxFields == 3
NCols == 3

\* Strings are sequences of characters.
Csv == <<"c", "s", "v">>
Text == <<"t", "e", "x", "t">>
Binary == <<"b", "i", "n", "a", "r", "y">>

\* The options of the COPY statement a load may see and the lists of them:
\* CopyBegin has rejected duplicates (comment of lines 770-773).
Options ==
  {[defname |-> "format", arg |-> f] : f \in {Csv, Text, Binary}}
    \cup {[defname |-> "delimiter", arg |-> <<d>>] : d \in {";", ","}}
    \cup {[defname |-> "null", arg |-> <<"N", "A">>]}

OptionLists ==
  {l \in UNION {[1..n -> Options] : n \in 0..3} :
     \A i, j \in 1..Len(l) : l[i].defname = l[j].defname => i = j}

\* A raw field of NextCopyFromRawFields: NULL or a string.
NullField == [isnull |-> TRUE, text |-> << >>]
Fields == {NullField} \cup {[isnull |-> FALSE, text |-> t] : t \in {<<"1">>, <<"x">>, <<"a", "b">>}}
FieldLists == UNION {[1..n -> Fields] : n \in 1..MaxFields}

\* The state of the loop of validate_options.
Defaults ==
  [delimiter |-> DEFAULT_PG_DELIMITER, null_string |-> DEFAULT_PG_NULL_VALUE,
   delimiter_found |-> FALSE, unsupported |-> FALSE]

\* Mutant: csv sets the delimiter whether or not one was given before.
CsvSetsDelimiter_Always(fmt, delimiter_found) == fmt = Csv

\* Line 800: strcmp(fmt, "csv") == 0 && !delimiter_found
CsvSetsDelimiter(fmt, delimiter_found) == fmt = Csv /\ ~delimiter_found

\* Lines 786-812: one option of the list.
ValidateOption(st, defel) ==
  IF defel.defname = "format"
  THEN IF defel.arg = Binary
       THEN [st EXCEPT !.unsupported = TRUE]
       ELSE IF CsvSetsDelimiter(defel.arg, st.delimiter_found)
            THEN [st EXCEPT !.delimiter = ","]
            ELSE st
  ELSE IF defel.defname = "delimiter"
       THEN [st EXCEPT !.delimiter = defel.arg[1], !.delimiter_found = TRUE]
       ELSE IF defel.defname = "null"
            THEN [st EXCEPT !.null_string = defel.arg]
            ELSE st

\* validate_options: the loop over the options; the loop is left at the
\* first option that raises.
RECURSIVE validate_options(_, _)
validate_options(opts, st) ==
  IF opts = << >> \/ st.unsupported
  THEN st
  ELSE validate_options(Tail(opts), ValidateOption(st, Head(opts)))

\* ctx->fields[i] ? ctx->fields[i] : ctx->null_string
FieldText(f, ns) == IF f.isnull THEN ns ELSE f.text

\* Lines 929-933: the fields but the last, each followed by the delimiter.
RECURSIVE TextLoop(_, _, _, _, _)
TextLoop(row, flds, i, ns, delim) ==
  IF i > Len(flds) - 1
  THEN row
  ELSE TextLoop(row \o FieldText(flds[i], ns) \o <<delim>>, flds, i + 1, ns, delim)

\* parse_next_text_row, lines 929-938.
parse_next_text_row(flds, ns, delim) ==
  TextLoop(<< >>, flds, 1, ns, delim) \o FieldText(flds[Len(flds)], ns) \o <<"\n">>

\* remote_copy_send_slot, lines 1423-1441: every attribute is followed by
\* delim, which is the newline for the last one.
RECURSIVE SlotTextLoop(_, _, _, _, _)
SlotTextLoop(row, flds, i, ns, delim) ==
  IF i > Len(flds)
  THEN row
  ELSE SlotTextLoop(row \o FieldText(flds[i], ns)
                        \o <<IF i = Len(flds) THEN "\n" ELSE delim>>,
                    flds, i + 1, ns, delim)

\* generate_text_copy_context: the options of the statement are validated
\* when the load begins.
ValidateOptions ==
  /\ pc = "options"
  /\ LET st == validate_options(copy_options, Defaults) IN
     /\ delimiter' = st.delimiter
     /\ null_string' = st.null_string
     /\ IF st.unsupported THEN Raise("binary_not_supported") ELSE Goto("text_row")
  /\ UNCHANGED <<loadVars, unitVars, copy_options, fields, values, nulls, attnums, row_data>>

\* read_next_copy_row in text mode: the raw fields of the next line.
ParseNextTextRow ==
  /\ pc = "text_row"
  /\ row_data' = parse_next_text_row(fields, null_string, delimiter)
  /\ Goto("text_done")
  /\ UNCHANGED <<loadVars, unitVars, copy_options, delimiter, null_string, fields, values,
                 nulls, attnums>>

\* remote_copy_send_slot in text mode: the attributes of the slot.
SlotTextRow ==
  /\ pc = "text_row"
  /\ row_data' = SlotTextLoop(<< >>, fields, 1, null_string, delimiter)
  /\ Goto("slot_text_done")
  /\ UNCHANGED <<loadVars, unitVars, copy_options, delimiter, null_string, fields, values,
                 nulls, attnums>>

\* What a type's send function may return for a value of a column: no
\* bytes, four bytes, or more than 255 bytes.
LongValue == [i \in 1..258 |-> 171]
ByteStrings == {<< >>, <<222, 173, 190, 239>>, LongValue}

\* The selected columns, in the order of the column list of the statement:
\* attribute numbers from 1, no column twice.
AttnumLists ==
  {l \in UNION {[1..n -> 1..NCols] : n \in 1..NCols} :
     \A i, j \in 1..Len(l) : l[i] = l[j] => i = j}

\* AttrNumberGetAttrOffset
AttrNumberGetAttrOffset(attnum) == attnum - 1

\* pg_hton16((uint16) n): the two bytes of n, the high one first.
pg_hton16(n) == <<(n % 65536) \div 256, n % 256>>

\* The four bytes of a 32-bit number that is not negative, the high one
\* first.
BytesOf(n) ==
  <<n \div 16777216, (n \div 65536) % 256, (n \div 256) % 256, n % 256>>

\* Mutant: the bytes are written in the order of a little-endian host.
pg_hton32_NoSwap(n) ==
  <<n % 256, (n \div 256) % 256, (n \div 65536) % 256, n \div 16777216>>

\* pg_hton32((uint32) n) of an int n: a negative n is its two's complement.
pg_hton32(n) ==
  IF n >= 0
  THEN BytesOf(n)
  ELSE [k \in 1..4 |-> 255 - BytesOf(-n - 1)[k]]

\* Lines 954-975: the loop over attnums.
RECURSIVE BinaryLoop(_, _, _, _)
BinaryLoop(row, atts, vals, nls) ==
  IF atts = << >>
  THEN row
  ELSE LET offset == AttrNumberGetAttrOffset(Head(atts)) IN
       IF nls[offset]
       THEN BinaryLoop(row \o pg_hton32(-1), Tail(atts), vals, nls)
       ELSE BinaryLoop(row \o pg_hton32(Len(vals[offset])) \o vals[offset],
                       Tail(atts), vals, nls)

\* generate_binary_copy_data
generate_binary_copy_data(vals, nls, atts) ==
  BinaryLoop(pg_hton16(Len(atts)), atts, vals, nls)

\* parse_next_binary_row and the binary branch of remote_copy_send_slot:
\* the values and null flags of the row, by attribute offset.
GenerateBinaryCopyData ==
  /\ pc = "binary_row"
  /\ row_data' = generate_binary_copy_data(values, nulls, attnums)
  /\ Goto("binary_done")
  /\ UNCHANGED <<loadVars, unitVars, copy_options, delimiter, null_string, fields, values,
                 nulls, attnums>>

\* A load begins in text mode with the options of its statement and a line
\* of the input, or in binary mode with a row of the table and the selected
\* columns.
InitCodec ==
  /\ mode \in {"text", "binary"}
  /\ ctx = "caller"
  /\ LoadIdle
  /\ delimiter = DEFAULT_PG_DELIMITER
  /\ null_string = DEFAULT_PG_NULL_VALUE
  /\ row_data = << >>
  /\ IF mode = "text"
     THEN /\ pc = "options"
          /\ copy_options \in OptionLists
          /\ fields \in FieldLists
          /\ values = << >>
          /\ nulls = << >>
          /\ attnums = << >>
     ELSE /\ pc = "binary_row"
          /\ copy_options = << >>
          /\ fields = << >>
          /\ values \in [0..(NCols - 1) -> ByteStrings]
          /\ nulls \in [0..(NCols - 1) -> BOOLEAN]
          /\ attnums \in AttnumLists

NextCodec ==
  \/ ValidateOptions
  \/ ParseNextTextRow
  \/ SlotTextRow
  \/ GenerateBinaryCopyData

SpecCodec == InitCodec /\ [][NextCodec]_vars

\* The concatenation of the strings of a list.
RECURSIVE Flatten(_)
Flatten(parts) == IF parts = << >> THEN << >> ELSE Head(parts) \o Flatten(Tail(parts))

\* The delimiter the options select, whatever their order: the explicit one
\* if there is one, the comma for csv, the tab otherwise.
SelectedDelimiter ==
  IF \E i \in 1..Len(copy_options) : copy_options[i].defname = "delimiter"
  THEN (CHOOSE o \in Range(copy_options) : o.defname = "delimiter").arg[1]
  ELSE IF \E i \in 1..Len(copy_options) :
            copy_options[i].defname = "format" /\ copy_options[i].arg = Csv
       THEN ","
       ELSE "\t"

\* The null marker the options select.
SelectedNull ==
  IF \E i \in 1..Len(copy_options) : copy_options[i].defname = "null"
  THEN (CHOOSE o \in Range(copy_options) : o.defname = "null").arg
  ELSE <<"\\", "N">>

\* The n fields in order, a null field as the null marker, with the
\* delimiter after each but the last and one newline at the end.
JoinedFields ==
  Flatten([k \in 1..(2 * Len(fields)) |->
             IF k % 2 = 1
             THEN (IF fields[(k + 1) \div 2].isnull
                   THEN null_string ELSE fields[(k + 1) \div 2].text)
             ELSE IF k = 2 * Len(fields) THEN <<"\n">> ELSE <<delimiter>>])

\* C19: in text mode the delimiter and the null marker are those the options
\* select, independent of the order of the options, and a row of n >= 1
\* fields is encoded as its field texts in order, null fields as the null
\* marker, n-1 delimiters between them and one newline at the end, by
\* parse_next_text_row and by remote_copy_send_slot alike.
C19_TextEncoding ==
  /\ (mode = "text" /\ pc \in {"text_row", "text_done", "slot_text_done"}) =>
       (delimiter = SelectedDelimiter /\ null_string = SelectedNull)
  /\ (mode = "text" /\ pc \in {"text_done", "slot_text_done"}) =>
       row_data = JoinedFields

\* csv with no explicit delimiter and the default null marker: the fields
\* 1, null, x are encoded as 1,\N,x and a newline.
C19_Witness ==
  /\ mode = "text" /\ pc = "text_done"
  /\ copy_options = <<[defname |-> "format", arg |-> Csv]>>
  /\ Len(fields) = 3
  /\ row_data = <<"1", ",", "\\", "N", ",", "x", "\n">>

\* The selected columns of the row, in the order of the column list: the
\* null flag of each and the bytes of its value.
SelectedColumns ==
  [k \in 1..Len(attnums) |->
     [isnull |-> nulls[attnums[k] - 1],
      bytes |-> IF nulls[attnums[k] - 1] THEN << >> ELSE values[attnums[k] - 1]]]

\* A length under 65536 as four bytes, the high one first.
LengthBytes(n) == <<0, 0, n \div 256, n % 256>>

\* The field count in two bytes, then per selected column FF FF FF FF or
\* the length and the bytes of the value.
BinaryLayout ==
  <<0, Len(attnums)>> \o
  Flatten([k \in 1..Len(attnums) |->
             IF SelectedColumns[k].isnull
             THEN <<255, 255, 255, 255>>
             ELSE LengthBytes(Len(SelectedColumns[k].bytes)) \o SelectedColumns[k].bytes])

\* A reader of the binary format: n fields from position pos on.
RECURSIVE DecodeLoop(_, _, _, _)
DecodeLoop(row, pos, n, acc) ==
  IF n = 0
  THEN [columns |-> acc, consumed |-> pos - 1]
  ELSE LET len4 == SubSeq(row, pos, pos + 3) IN
       IF len4 = <<255, 255, 255, 255>>
       THEN DecodeLoop(row, pos + 4, n - 1, Append(acc, [isnull |-> TRUE, bytes |-> << >>]))
       ELSE LET l == ((len4[1] * 256 + len4[2]) * 256 + len4[3]) * 256 + len4[4] IN
            DecodeLoop(row, pos + 4 + l, n - 1,
                       Append(acc, [isnull |-> FALSE,
                                    bytes |-> SubSeq(row, pos + 4, pos + 3 + l)]))

DecodeRow(row) == DecodeLoop(row, 3, row[1] * 256 + row[2], << >>)

\* C20: in binary mode a row is encoded as the number of selected columns
\* in two bytes, high byte first, then for each selected column, in the order
\* of the column list, FF FF FF FF for a null or the length of the value in
\* four bytes, high byte first, and the bytes of the value; a reader of the
\* format gets back the null flag and the bytes of every selected column,
\* and nothing is left over.
C20_BinaryEncoding ==
  (mode = "binary" /\ pc = "binary_done") =>
    /\ row_data = BinaryLayout
    /\ DecodeRow(row_data).columns = SelectedColumns
    /\ DecodeRow(row_data).consumed = Len(row_data)

\* Columns 3 and 1 of the table are selected in that order, the first has a
\* value of four bytes and the second is null: 00 02, 00 00 00 04 and the
\* four bytes, FF FF FF FF.
C20_Witness ==
  /\ mode = "binary" /\ pc = "binary_done"
  /\ attnums = <<3, 1>>
  /\ row_data = <<0, 2, 0, 0, 0, 4, 222, 173, 190, 239, 255, 255, 255, 255>>

\* C21: a chunk that exists stays what it is (the same data nodes answer
\* every later lookup of its points), the creation is reached only for a
\* point whose lookup found no chunk, and only the creation changes the
\* chunks: so no chunk is created twice, and a later row of the same
\* partition finds the chunk by lookup.
C21_RoutingIdempotent ==
  [][/\ \A k \in ChunkIds : chunks[k] # NoChunk => chunks'[k] = chunks[k]
     /\ pc = "create" => chunks[ChunkOf(batch_points[row_in_batch])] = NoChunk
     /\ chunks' # chunks =>
          /\ pc = "create"
          /\ pass_creates' = pass_creates + 1
          /\ \A k \in ChunkIds \ {ChunkOf(batch_points[row_in_batch])} :
               chunks'[k] = chunks[k]]_vars

\* Three rows of one partition that did not exist were routed in one pass:
\* one creation, two lookups that found the chunk.
C21_Witness ==
  /\ InPass /\ pc = "connect"
  /\ Len(batch_points) = 3
  /\ batch_points[1] = batch_points[2] /\ batch_points[2] = batch_points[3]
  /\ pass_creates = 1

\* C22 as stated: when a row with a NULL partitioning value fails the load,
\* no row has been pushed to a data node, rows of earlier batches included.
C22_Original ==
  first_error = "null_partition_key" => processed = 0 /\ pass_puts = << >>

\* C22: a NULL partitioning value is found while the row is read, before its
\* batch is dispatched: neither the offending row nor any row collected in
\* the same batch is pushed, now or in the PG_CATCH block; the rows pushed
\* are those of the batches completed before (processed).
C22_NullKeyBeforeDispatch ==
  first_error = "null_partition_key" =>
    /\ pass_puts = << >>
    /\ processed < rows_read
    /\ pc \notin {"route", "create", "connect", "send"}

\* Two batches went out (a row over the byte threshold each), then the third
\* row had a NULL partitioning value and the load failed.
C22_Witness ==
  /\ pc = "raised" /\ first_error = "null_partition_key"
  /\ rows_read = 3 /\ processed = 2

(* ------------------------------------------------------------------ *)
(* end_copy_on_data_nodes, one list cell at a time                      *)
(* ------------------------------------------------------------------ *)

\* The longest list of connections in use the function is run on.
MaxInUse == 3

\* Lists of distinct connections: connections_in_use holds a connection
\* once (list_append_unique_ptr, line 328 and 1216).
ConnLists ==
  {l \in UNION {[1..n -> Conns] : n \in 0..MaxInUse} :
     \A i, j \in 1..Len(l) : i # j => l[i] # l[j]}

\* Mutant: the status of the connection is not looked at.
EndCopyNeeded_Always(st) == TRUE

\* Line 587: remote_connection_end_copy is called on a connection in
\* CONN_COPY_IN only.
EndCopyNeeded(st) == st = "CONN_COPY_IN"

\* One iteration of the foreach of lines 583-590: a connection that is not
\* in CONN_COPY_IN is passed over; on the others remote_connection_end_copy
\* is called, and when it fails it has filled err and failure is set.
EndCopyCell ==
  /\ pc = "end_copy_cell"
  /\ lc <= Len(connections_in_use)
  /\ LET conn == connections_in_use[lc] IN
     IF EndCopyNeeded(status[conn])
     THEN /\ end_count' = CountEnded(end_count, {conn})
          /\ \/ /\ status' = EndCopyStatus(<<conn>>, status, {})
                /\ UNCHANGED <<err, failure>>
             \/ /\ status' = EndCopyStatus(<<conn>>, status, {conn})
                /\ err' = conn
                /\ failure' = TRUE
     ELSE UNCHANGED <<end_count, status, err, failure>>
  /\ lc' = lc + 1
  /\ UNCHANGED <<mode, codecVars, histVars, ackVars, ctxVars, cacheVars, mctx_deleted, loopVars,
                 passVars, slotVars, flushVars, chunks, nonblocking, passHist,
                 begin_count, undersized, copy_in_at_entry, reqHist, ctlVars,
                 dimVars, drainVars>>

\* Lines 592-593: after the last cell the error of the last failure is
\* raised, if there was one.
EndCopyReturn ==
  /\ pc = "end_copy_cell"
  /\ lc > Len(connections_in_use)
  /\ IF failure
     THEN Raise("end_copy_failed")
     ELSE Goto("returned")
  /\ UNCHANGED <<mode, codecVars, unitVars, histVars, ackVars, ctxVars, cacheVars, mctx_deleted,
                 loopVars, passVars, slotVars, flushVars, chunks, connVars,
                 passHist, begin_count, undersized, copy_in_at_entry, reqHist,
                 end_count>>

\* end_copy_on_data_nodes is called with some connections in use, each in
\* some status.
InitEndCopy ==
  /\ mode = "end_copy"
  /\ pc = "end_copy_cell"
  /\ ctx = "caller"
  /\ ContextIdle
  /\ FlushIdle
  /\ HistoryIdle
  /\ CodecIdle
  /\ connections_in_use \in ConnLists
  /\ status \in {st \in [Conns -> ConnStatus] :
                   \A c \in Conns : ~list_member(connections_in_use, c) => st[c] = "CONN_IDLE"}
  /\ nonblocking = [c \in Conns |-> FALSE]
  /\ copy_in_at_entry = CopyInOf(connections_in_use)
  /\ lc = 1
  /\ err = NoConn
  /\ failure = FALSE
  /\ DimensionsIdle
  /\ DrainIdle

NextEndCopy ==
  \/ EndCopyCell
  \/ EndCopyReturn

SpecEndCopy == InitEndCopy /\ [][NextEndCopy]_vars

\* The connections of the list the loop has passed.
Visited == {connections_in_use[i] : i \in 1..(IF lc - 1 < Len(connections_in_use) THEN lc - 1 ELSE Len(connections_in_use))}

\* The connections on which remote_connection_end_copy was called and
\* failed.
FailedEndCopy == {c \in copy_in_at_entry : status[c] = "CONN_ERROR"}

\* C23: end_copy_on_data_nodes ends the COPY once on every connection of
\* connections_in_use that is in CONN_COPY_IN and makes no call on the
\* others, none of which enters a COPY; a failure does not stop the loop;
\* the error is raised only after the last connection, and exactly when
\* some call failed.
C23_EndCopyOnDataNodes ==
  mode = "end_copy" =>
    /\ \A c \in Conns :
         end_count[c] = IF c \in Visited /\ c \in copy_in_at_entry THEN 1 ELSE 0
    /\ \A c \in Range(connections_in_use) \ copy_in_at_entry :
         status[c] # "CONN_COPY_IN"
    /\ failure <=> FailedEndCopy # {}
    /\ pc \in {"raised", "returned"} =>
         /\ lc = Len(connections_in_use) + 1
         /\ pc = "raised" <=> FailedEndCopy # {}

\* Three connections: the COPY of the first could not be ended, the second
\* was not in a COPY, the COPY of the third was ended after the failure and
\* the error was raised after it.
C23_Witness ==
  /\ mode = "end_copy" /\ pc = "raised"
  /\ Len(connections_in_use) = 3
  /\ connections_in_use[1] \in FailedEndCopy
  /\ connections_in_use[2] \notin copy_in_at_entry
  /\ connections_in_use[3] \in copy_in_at_entry
  /\ status[connections_in_use[3]] = "CONN_IDLE"
  /\ end_count[connections_in_use[3]] = 1

(* ------------------------------------------------------------------ *)
(* The partitioning dimensions of a text row                            *)
(* ------------------------------------------------------------------ *)

\* The most dimensions a hypertable of the model has.
MaxDims == 2

\* The dimensions of a hyperspace: each open or closed, each on a column
\* of its own.
Dimensions ==
  [type : {"DIMENSION_TYPE_OPEN", "DIMENSION_TYPE_CLOSED"}, column_attno : 1..NCols]

DimensionLists ==
  {l \in UNION {[1..n -> Dimensions] : n \in 1..MaxDims} :
     \A i, j \in 1..Len(l) : l[i].column_attno = l[j].column_attno => i = j}

\* The raw fields of a row in the columns the statement selects: NULL or
\* the text of a number.
DimensionFields ==
  {NullField} \cup {[isnull |-> FALSE, text |-> t] : t \in {<<"1">>, <<"2", "1">>}}

\* The foreach of lines 160-165: the position of the dimension's column in
\* attnums, counted from 0; the length of the list when it is not there.
RECURSIVE PositionOf(_, _, _)
PositionOf(attno, list, i) ==
  IF i = Len(list) \/ list[i + 1] = attno THEN i
  ELSE PositionOf(attno, list, i + 1)

NoDefault == [error |-> TRUE]

\* Mutant: a closed dimension without a column falls back to its default.
generate_copy_dimension_DefaultForClosed(d, list) ==
  LET i == PositionOf(d.column_attno, list, 0) IN
  IF i = Len(list)
  THEN IF d.type = "DIMENSION_TYPE_OPEN" THEN NoDefault
       ELSE [error |-> FALSE, dim |-> d, corresponding_copy_field |-> -1,
             default_value |-> 0]
  ELSE [error |-> FALSE, dim |-> d, corresponding_copy_field |-> i,
        default_value |-> 0]

\* One iteration of the loop of lines 153-191: a dimension whose column is
\* not selected is an error, whatever its type (lines 169-175); otherwise
\* the position of the column is kept.  palloc0 leaves default_value 0.
generate_copy_dimension(d, list) ==
  LET i == PositionOf(d.column_attno, list, 0) IN
  IF i = Len(list)
  THEN NoDefault
  ELSE [error |-> FALSE, dim |-> d, corresponding_copy_field |-> i,
        default_value |-> 0]

\* Lines 146-194: the first dimension that fails raises.
generate_copy_dimensions(ds, list) ==
  IF \E k \in 1..Len(ds) : generate_copy_dimension(ds[k], list).error
  THEN NoDefault
  ELSE [error |-> FALSE,
        infos |-> [k \in 1..Len(ds) |-> generate_copy_dimension(ds[k], list)]]

\* The input function of an integer column: the digits of the text.
DigitValue(c) ==
  CASE c = "0" -> 0 [] c = "1" -> 1 [] c = "2" -> 2 [] c = "3" -> 3 [] c = "4" -> 4
    [] c = "5" -> 5 [] c = "6" -> 6 [] c = "7" -> 7 [] c = "8" -> 8 [] c = "9" -> 9

RECURSIVE InputFunctionCall(_)
InputFunctionCall(text) ==
  IF text = << >> THEN 0
  ELSE 10 * InputFunctionCall(SubSeq(text, 1, Len(text) - 1)) + DigitValue(text[Len(text)])

NullInOpenDimension == [error |-> TRUE]

\* Lines 196-222: the datum of one dimension.  A NULL field is an error in
\* an open dimension and the datum 0 in a closed one.
get_copy_dimension_datum(flds, info) ==
  IF info.corresponding_copy_field # -1
  THEN LET f == flds[info.corresponding_copy_field + 1] IN
       IF f.isnull
       THEN IF info.dim.type = "DIMENSION_TYPE_OPEN"
            THEN NullInOpenDimension
            ELSE [error |-> FALSE, datum |-> 0, from_default |-> FALSE]
       ELSE [error |-> FALSE, datum |-> InputFunctionCall(f.text), from_default |-> FALSE]
  ELSE [error |-> FALSE, datum |-> info.default_value, from_default |-> TRUE]

\* remote_copy_begin in text mode (line 858): the dimensions of the load are
\* derived from the column list of the statement.
GenerateCopyDimensions ==
  /\ pc = "copy_dimensions"
  /\ LET r == generate_copy_dimensions(dims, attnums) IN
     IF r.error
     THEN /\ Raise("no_default_for_partitioning_column")
          /\ UNCHANGED dimensions
     ELSE /\ dimensions' = r.infos
          /\ Goto("point")
  /\ UNCHANGED <<loadVars, endCopyVars, drainVars, codecVars, dims, coordinates>>

\* Lines 248-266: the point of a row read in text mode, without the
\* partitioning function and the conversion of convert_datum_to_dim_idx.
CalculatePointFromFields ==
  /\ pc = "point"
  /\ \E flds \in [1..Len(attnums) -> DimensionFields] :
       LET d == [k \in 1..Len(dimensions) |-> get_copy_dimension_datum(flds, dimensions[k])] IN
       /\ fields' = flds
       /\ IF \E k \in 1..Len(d) : d[k].error
          THEN /\ Raise("null_partition_key")
               /\ UNCHANGED coordinates
          ELSE /\ coordinates' = d
               /\ Goto("point_done")
  /\ UNCHANGED <<loadVars, endCopyVars, drainVars, copy_options, delimiter, null_string, values,
                 nulls, attnums, row_data, dims, dimensions>>

\* A load in text mode begins on a hypertable with some dimensions and a
\* statement that selects some columns.
InitDimensions ==
  /\ mode = "dimensions"
  /\ pc = "copy_dimensions"
  /\ ctx = "caller"
  /\ ContextIdle
  /\ FlushIdle
  /\ HistoryIdle
  /\ ConnectionsIdle
  /\ EndCopyIdle
  /\ DrainIdle
  /\ copy_options = << >>
  /\ delimiter = DEFAULT_PG_DELIMITER
  /\ null_string = DEFAULT_PG_NULL_VALUE
  /\ fields = << >>
  /\ values = << >>
  /\ nulls = << >>
  /\ row_data = << >>
  /\ attnums \in AttnumLists
  /\ dims \in DimensionLists
  /\ dimensions = << >>
  /\ coordinates = << >>

NextDimensions ==
  \/ GenerateCopyDimensions
  \/ CalculatePointFromFields

SpecDimensions == InitDimensions /\ [][NextDimensions]_vars

\* The dimensions whose column the statement does not select.
Unselected(kind) ==
  {k \in 1..Len(dims) : dims[k].type = kind /\ ~list_member(attnums, dims[k].column_attno)}

\* C24 as stated: a dimension without a column in the selection fails the
\* load only if it is open; a closed one takes its default.
C24_Original ==
  mode = "dimensions" /\ error = "no_default_for_partitioning_column" =>
    Unselected("DIMENSION_TYPE_OPEN") # {}

\* C24: a dimension without a column in the selection fails the load when
\* the dimensions are derived, whether it is open or closed; the default
\* value of a dimension is never the source of a coordinate: once the
\* dimensions are derived each one reads the field of its own column.
C24_UnselectedDimensionRejected ==
  mode = "dimensions" /\ pc # "copy_dimensions" =>
    /\ error = "no_default_for_partitioning_column" <=>
         Unselected("DIMENSION_TYPE_OPEN") \cup Unselected("DIMENSION_TYPE_CLOSED") # {}
    /\ \A k \in 1..Len(dimensions) :
         /\ dimensions[k].corresponding_copy_field \in 0..(Len(attnums) - 1)
         /\ attnums[dimensions[k].corresponding_copy_field + 1] = dims[k].column_attno
    /\ \A k \in 1..Len(coordinates) :
         /\ ~coordinates[k].from_default
         /\ coordinates[k].datum =
              LET f == fields[dimensions[k].corresponding_copy_field + 1] IN
              IF f.isnull THEN 0 ELSE InputFunctionCall(f.text)

\* The load was rejected on a hypertable whose only unselected dimension is
\* closed.
C24_Witness ==
  /\ mode = "dimensions" /\ pc = "raised"
  /\ error = "no_default_for_partitioning_column"
  /\ Unselected("DIMENSION_TYPE_OPEN") = {}
  /\ Unselected("DIMENSION_TYPE_CLOSED") # {}
  /\ Len(dims) = 2

(* ------------------------------------------------------------------ *)
(* The drain loop of flush_active_connections, one connection at a time *)
(* ------------------------------------------------------------------ *)

\* The most socket buffers of data a connection has left to write when the
\* loop is entered, and the most connections the loop is entered with.
MaxPending == 1
MaxDraining == 2

DrainLists == {l \in ConnLists : Len(l) <= MaxDraining}

\* list_truncate(list, 0) of PostgreSQL returns NIL for a size of 0 or less.
\* Mutant: the list is left as it is.
list_truncate_Keep(list, n) == list

list_truncate(list, n) ==
  IF n <= 0 THEN << >>
  ELSE IF n < Len(list) THEN SubSeq(list, 1, n) ELSE list

\* PQflush (line 420): 0 when the buffer is empty or the socket took the
\* last of it, 1 when data is left.  A writable socket takes one buffer.
PQflush(pending, canWrite) ==
  IF pending = 0 \/ (pending = 1 /\ canWrite) THEN 0 ELSE 1

LeftToWrite(pending, canWrite) ==
  IF pending > 0 /\ canWrite THEN pending - 1 ELSE pending

\* PQisBusy (line 451): the response of the server is not complete.
PQisBusy(conn) == ~answered[conn]

\* Mutant: the response is read before the buffer is flushed.
CallsOf_ReadFirst(conn, res, busy) ==
  <<[conn |-> conn, call |-> "PQconsumeInput", res |-> 1],
    [conn |-> conn, call |-> "PQisBusy", res |-> IF busy THEN 1 ELSE 0],
    [conn |-> conn, call |-> "PQflush", res |-> res]>>

\* The calls made for one connection in one round.
CallsOf(conn, res, busy) ==
  IF res = 1
  THEN <<[conn |-> conn, call |-> "PQflush", res |-> 1]>>
  ELSE <<[conn |-> conn, call |-> "PQflush", res |-> 0],
         [conn |-> conn, call |-> "PQconsumeInput", res |-> 1],
         [conn |-> conn, call |-> "PQisBusy", res |-> IF busy THEN 1 ELSE 0]>>

\* Mutant: a connection with data left to write waits for a readable
\* socket.
WaitEventOf_Readable(res) == "WL_SOCKET_READABLE"

\* Lines 437 and 455: what a busy connection waits for.
WaitEventOf(res) ==
  IF res = 1 THEN "WL_SOCKET_WRITEABLE" ELSE "WL_SOCKET_READABLE"

\* Line 411: CHECK_FOR_INTERRUPTS() without a pending cancel, then the
\* foreach of line 414 starts.
DrainBegin ==
  /\ pc = "drain_top"
  /\ to_flush_cell' = 1
  /\ flush_log' = << >>
  /\ Goto("drain_cell")
  /\ UNCHANGED <<loadVars, codecVars, endCopyVars, dimVars, out_pending, writable,
                 answered, wait_set, drained>>

\* Line 411 with a cancel pending.
DrainInterrupt ==
  /\ pc = "drain_top"
  /\ Raise("cancel")
  /\ UNCHANGED <<loadVars, codecVars, unitVars>>

\* One iteration of the foreach of lines 414-460: the buffer is flushed; a
\* connection with data left is kept for the next round and waits for a
\* writable socket; otherwise the input is consumed, and a connection whose
\* response is not complete is kept and waits for a readable socket.
DrainCell ==
  /\ pc = "drain_cell"
  /\ to_flush_cell <= Len(to_flush)
  /\ LET conn == to_flush[to_flush_cell]
         res == PQflush(out_pending[conn], writable[conn])
         busy == res = 1 \/ PQisBusy(conn)
     IN
     /\ out_pending' = [out_pending EXCEPT ![conn] = LeftToWrite(@, writable[conn])]
     /\ writable' = [writable EXCEPT ![conn] = FALSE]
     /\ flush_log' = flush_log \o CallsOf(conn, res, PQisBusy(conn))
     /\ IF busy
        THEN /\ to_flush_next' = Append(to_flush_next, conn)
             /\ wait_events' = Append(wait_events, WaitEventOf(res))
             /\ UNCHANGED drained
        ELSE /\ drained' = drained \cup {conn}
             /\ UNCHANGED <<to_flush_next, wait_events>>
  /\ to_flush_cell' = to_flush_cell + 1
  /\ UNCHANGED <<mode, codecVars, histVars, endCopyVars, dimVars, ackVars, ctxVars, cacheVars,
                 mctx_deleted, loopVars, passVars, slotVars, to_end_copy, to_flush,
                 rounds, chunks, connVars, passHist, begin_count, undersized,
                 copy_in_at_entry, reqHist, end_count, ctlVars, answered, wait_set>>

\* PQflush returns -1 (lines 421-427), or PQconsumeInput returns 0 after a
\* flush that left nothing (lines 443-449).
DrainCellFails ==
  /\ pc = "drain_cell"
  /\ to_flush_cell <= Len(to_flush)
  /\ LET conn == to_flush[to_flush_cell] IN
     \/ /\ flush_log' = Append(flush_log, [conn |-> conn, call |-> "PQflush", res |-> -1])
        /\ Raise("flush_failed")
     \/ /\ PQflush(out_pending[conn], FALSE) = 0
        /\ flush_log' = flush_log \o
             <<[conn |-> conn, call |-> "PQflush", res |-> 0],
               [conn |-> conn, call |-> "PQconsumeInput", res |-> 0]>>
        /\ Raise("consume_failed")
  /\ UNCHANGED <<loadVars, codecVars, endCopyVars, dimVars, to_flush_cell, out_pending,
                 writable, answered, wait_set, drained>>

\* Lines 462-484: the loop is left when no connection was busy; otherwise
\* the wait event set is made from to_flush_next and wait_events.
DrainRoundEnd ==
  /\ pc = "drain_cell"
  /\ to_flush_cell > Len(to_flush)
  /\ IF Len(to_flush_next) = 0
     THEN /\ Goto("flush_cleanup")
          /\ UNCHANGED wait_set
     ELSE /\ wait_set' =
               [k \in 1..(IF Len(to_flush_next) < Len(wait_events)
                          THEN Len(to_flush_next) ELSE Len(wait_events)) |->
                  [conn |-> to_flush_next[k], events |-> wait_events[k]]]
          /\ Goto("drain_wait")
  /\ UNCHANGED <<loadVars, codecVars, endCopyVars, dimVars, to_flush_cell, out_pending,
                 writable, answered, flush_log, drained>>

\* Lines 486-510: WaitEventSetWait returns, for an event or after its
\* timeout; the set is freed, the lists are swapped and the list of the
\* next round and its events are truncated.
DrainWait ==
  /\ pc = "drain_wait"
  /\ wait_set' = << >>
  /\ to_flush' = to_flush_next
  /\ to_flush_next' = list_truncate(to_flush, 0)
  /\ wait_events' = list_truncate(wait_events, 0)
  /\ Goto("drain_top")
  /\ UNCHANGED <<mode, codecVars, histVars, endCopyVars, dimVars, ackVars, ctxVars, cacheVars,
                 mctx_deleted, loopVars, passVars, slotVars, to_end_copy, rounds,
                 chunks, connVars, passHist, begin_count, undersized,
                 copy_in_at_entry, reqHist, end_count, to_flush_cell, out_pending,
                 writable, answered, flush_log, drained>>

\* The socket of a connection with data left becomes writable.
SocketWritable(conn) ==
  /\ pc \in {"drain_top", "drain_cell", "drain_wait"}
  /\ out_pending[conn] > 0
  /\ ~writable[conn]
  /\ writable' = [writable EXCEPT ![conn] = TRUE]
  /\ UNCHANGED <<loadVars, codecVars, endCopyVars, dimVars, ctlVars, to_flush_cell,
                 out_pending, answered, flush_log, wait_set, drained>>

\* The response to the end of the COPY has arrived in full.
ResponseArrives(conn) ==
  /\ pc \in {"drain_top", "drain_cell", "drain_wait"}
  /\ list_member(to_end_copy, conn)
  /\ out_pending[conn] = 0
  /\ ~answered[conn]
  /\ answered' = [answered EXCEPT ![conn] = TRUE]
  /\ UNCHANGED <<loadVars, codecVars, endCopyVars, dimVars, ctlVars, to_flush_cell,
                 out_pending, writable, flush_log, wait_set, drained>>

\* The loop is entered after the marker loop of lines 353-391: the
\* connections of to_end_copy are in CONN_PROCESSING and non-blocking, each
\* with some data left to write, and to_flush is a copy of the list.
InitDrain ==
  /\ mode = "drain"
  /\ pc = "drain_top"
  /\ ctx = "caller"
  /\ ContextIdle
  /\ HistoryIdle
  /\ to_end_copy \in DrainLists
  /\ to_flush = to_end_copy
  /\ to_flush_next = << >>
  /\ wait_events = << >>
  /\ rounds = 0
  /\ connections_in_use = to_end_copy
  /\ status = [c \in Conns |-> IF list_member(to_end_copy, c)
                               THEN "CONN_PROCESSING" ELSE "CONN_IDLE"]
  /\ nonblocking = [c \in Conns |-> list_member(to_end_copy, c)]
  /\ copy_in_at_entry = Range(to_end_copy)
  /\ CodecIdle
  /\ EndCopyIdle
  /\ DimensionsIdle
  /\ to_flush_cell = 0
  /\ out_pending \in {p \in [Conns -> 0..MaxPending] :
                        \A c \in Conns : ~list_member(to_end_copy, c) => p[c] = 0}
  /\ writable = [c \in Conns |-> FALSE]
  /\ answered = [c \in Conns |-> FALSE]
  /\ flush_log = << >>
  /\ wait_set = << >>
  /\ drained = {}

NextDrain ==
  \/ DrainBegin
  \/ DrainInterrupt
  \/ DrainCell
  \/ DrainCellFails
  \/ DrainRoundEnd
  \/ DrainWait
  \/ \E conn \in Conns : SocketWritable(conn)
  \/ \E conn \in Conns : ResponseArrives(conn)

SpecDrain == InitDrain /\ [][NextDrain]_vars

\* The drain loop when nothing is cancelled and no call fails.
NextDrainLive ==
  \/ DrainBegin
  \/ DrainCell
  \/ DrainRoundEnd
  \/ DrainWait
  \/ \E conn \in Conns : SocketWritable(conn)
  \/ \E conn \in Conns : ResponseArrives(conn)

\* The backend keeps running (WaitEventSetWait returns after its timeout at
\* the latest), the socket of a connection with data left becomes writable,
\* and the response of a connection that has sent everything arrives.
SpecDrainLive ==
  /\ InitDrain
  /\ [][NextDrainLive]_vars
  /\ WF_vars(DrainBegin \/ DrainCell \/ DrainRoundEnd \/ DrainWait)
  /\ \A conn \in Conns : WF_vars(SocketWritable(conn))
  /\ \A conn \in Conns : WF_vars(ResponseArrives(conn))

\* The connections the round still has to flush.
LeftInRound ==
  IF pc = "drain_top" THEN Range(to_flush)
  ELSE IF pc = "drain_cell"
       THEN {to_flush[k] : k \in to_flush_cell..Len(to_flush)}
       ELSE {}

\* The connections in the wait event set.
Waited == {wait_set[k].conn : k \in 1..Len(wait_set)}

\* A connection that is done is not flushed, kept for the next round or
\* waited for again.
DrainedStayOut ==
  /\ LeftInRound \cap drained = {}
  /\ Range(to_flush_next) \cap drained = {}
  /\ Waited \cap drained = {}

\* C25: without a cancel or a failed call, with sockets that become
\* writable and responses that arrive, the drain loop reaches a round in
\* which no connection is busy and leaves; the list of a round holds only
\* connections of the list of the round before; a connection that is done
\* is not flushed, read or waited for again.
C25_DrainTerminates ==
  /\ <>(pc = "flush_cleanup")
  /\ [][Range(to_flush') \subseteq Range(to_flush)]_vars
  /\ []DrainedStayOut

\* The loop was left after a round with one connection of the two it was
\* entered with: the other was done in a round before.
C25_Witness ==
  /\ mode = "drain" /\ pc = "flush_cleanup"
  /\ Len(to_end_copy) = 2
  /\ Len(to_flush) = 1
  /\ drained = Range(to_end_copy)

\* The connections whose flush left data in the round, and those whose
\* response was not complete.
WriteBusy ==
  {flush_log[i].conn : i \in {j \in 1..Len(flush_log) :
     flush_log[j].call = "PQflush" /\ flush_log[j].res = 1}}

ReadBusy ==
  {flush_log[i].conn : i \in {j \in 1..Len(flush_log) :
     flush_log[j].call = "PQisBusy" /\ flush_log[j].res = 1}}

\* C26: to_flush_next and wait_events have the same length in every round,
\* and at the wait the wait event set has one entry for every connection
\* that was busy in the round and none for the others: for a writable
\* socket when the flush left data, for a readable socket when the
\* response was not complete.
C26_WaitSetMatchesBusy ==
  mode = "drain" =>
    /\ Len(to_flush_next) = Len(wait_events)
    /\ pc = "drain_wait" =>
         /\ Len(wait_set) = Len(to_flush_next)
         /\ Len(wait_set) = Cardinality(WriteBusy \cup ReadBusy)
         /\ Waited = WriteBusy \cup ReadBusy
         /\ Waited \cap drained = {}
         /\ WriteBusy \cap ReadBusy = {}
         /\ \A k \in 1..Len(wait_set) :
              /\ wait_set[k].conn = to_flush_next[k]
              /\ wait_set[k].conn \in WriteBusy => wait_set[k].events = "WL_SOCKET_WRITEABLE"
              /\ wait_set[k].conn \in ReadBusy => wait_set[k].events = "WL_SOCKET_READABLE"

\* The wait of a second round, after the swap and the truncation: of two
\* connections one is left, and it waits for a readable socket.
C26_Witness ==
  /\ mode = "drain" /\ pc = "drain_wait"
  /\ Len(to_end_copy) = 2
  /\ Len(to_flush) = 1
  /\ Len(wait_set) = 1
  /\ wait_set[1].events = "WL_SOCKET_READABLE"
  /\ drained # {}

\* The connections of to_flush the round has passed.
DoneInRound ==
  {to_flush[k] : k \in 1..(IF to_flush_cell - 1 < Len(to_flush)
                           THEN to_flush_cell - 1 ELSE Len(to_flush))}

HasCall(conn, call, res) ==
  \E i \in 1..Len(flush_log) :
    flush_log[i] = [conn |-> conn, call |-> call, res |-> res]

\* C27: in a round the input of a connection is consumed, and its response
\* looked at, only right after its flush returned 0; a connection whose
\* flush left data is not read in that round; a connection is dropped from
\* the list only in a round in which its flush returned 0 and its response
\* was complete, and then it has nothing left to write and its response
\* has arrived.
C27_ReadAfterFlush ==
  mode = "drain" =>
    /\ \A i \in 1..Len(flush_log) :
         /\ flush_log[i].call = "PQconsumeInput" =>
              /\ i > 1
              /\ flush_log[i - 1] = [conn |-> flush_log[i].conn, call |-> "PQflush", res |-> 0]
         /\ flush_log[i].call = "PQisBusy" =>
              /\ i > 1
              /\ flush_log[i - 1] =
                   [conn |-> flush_log[i].conn, call |-> "PQconsumeInput", res |-> 1]
    /\ \A c \in WriteBusy :
         ~\E i \in 1..Len(flush_log) :
            flush_log[i].conn = c /\ flush_log[i].call # "PQflush"
    /\ pc \in {"drain_cell", "drain_wait", "flush_cleanup"} =>
         \A c \in DoneInRound \ Range(to_flush_next) :
           /\ HasCall(c, "PQflush", 0)
           /\ HasCall(c, "PQisBusy", 0)
    /\ \A c \in drained : out_pending[c] = 0 /\ answered[c]

\* A round of two connections: the first had data left and was not read,
\* the second was flushed, read and was done.
C27_Witness ==
  /\ mode = "drain" /\ pc = "drain_wait"
  /\ Len(to_flush) = 2
  /\ flush_log = <<[conn |-> to_flush[1], call |-> "PQflush", res |-> 1],
                   [conn |-> to_flush[2], call |-> "PQflush", res |-> 0],
                   [conn |-> to_flush[2], call |-> "PQconsumeInput", res |-> 1],
                   [conn |-> to_flush[2], call |-> "PQisBusy", res |-> 0]>>
  /\ to_flush_next = <<to_flush[1]>>

\* flush_active_connections has just returned, or has just raised from its
\* verification loop, in a load without an earlier error.
FlushExited ==
  \/ pc = "create"
  \/ pc = "end_copy" /\ ctx = "end"
  \/ pc = "flush_mark" /\ ctx = "catch" /\ first_error \in BadResults
  \/ pc = "raised" /\ ctx = "end" /\ error \in BadResults

\* C28: when flush_active_connections returns, or raises from its
\* verification loop, no connection it has marked idle has a result that
\* was not read.
C28_IdleResultsConsumed ==
  FlushExited =>
    \A c \in Conns : status[c] = "CONN_IDLE" => ack[c] = "none"

\* C30: in remote_copy_end, end_copy_on_data_nodes is entered only by the
\* return of flush_active_connections, with no connection in use in
\* CONN_COPY_IN; it ends no COPY and raises nothing; the memory context is
\* deleted only after it; and a flush_active_connections that raises inside
\* remote_copy_end leaves the function with neither executed.
C30_EndCopyAfterFlush ==
  [][/\ pc' = "end_copy" =>
          /\ pc = "flush_verify"
          /\ ~RaiseStep
          /\ \A i \in 1..Len(connections_in_use') :
               status'[connections_in_use'[i]] # "CONN_COPY_IN"
     /\ pc = "end_copy" =>
          /\ end_count' = end_count
          /\ status' = status
          /\ error' \in {error, first_error}
          /\ mctx_deleted'
     /\ mctx_deleted' # mctx_deleted => pc = "end_copy"
     /\ InFlush /\ ctx \in {"catch", "end"} /\ RaiseStep =>
          /\ pc' = "raised"
          /\ ~mctx_deleted'
          /\ end_count' = end_count \/ pc = "flush_mark"]_vars

\* end_copy_on_data_nodes is reached after a flush that ended the COPY of
\* two connections.
C30_Witness ==
  /\ pc = "end_copy"
  /\ Len(connections_in_use) = 2
  /\ Cardinality(copy_in_at_entry) = 2
  /\ ~mctx_deleted

(* ------------------------------------------------------------------ *)
(* A whole load with its history                                        *)
(* ------------------------------------------------------------------ *)

\* remote_distributed_copy starts; the rows read and the rows pushed to
\* each data node are remembered.
InitHistory ==
  /\ mode = "batch"
  /\ pc = "read"
  /\ ctx = "try"
  /\ ContextIdle
  /\ FlushIdle
  /\ ConnectionsIdle
  /\ EndCopyIdle
  /\ DimensionsIdle
  /\ DrainIdle
  /\ CodecIdle
  /\ tracking = TRUE
  /\ source = << >>
  /\ pushed = [n \in Nodes |-> << >>]

NextHistory ==
  \/ ReadRow
  \/ ReadEof
  \/ ReadNullKey
  \/ LoopInterrupt
  \/ RouteRowFound
  \/ RouteRowMissing
  \/ CreateChunk
  \/ RouteEnd
  \/ ConnectNode
  \/ ConnectEnd
  \/ SendNode
  \/ SendEnd
  \/ FlushMark
  \/ FlushInterrupt
  \/ FlushRound
  \/ FlushRoundFails
  \/ FlushWait
  \/ FlushCleanup
  \/ FlushVerify
  \/ EndCopyOnDataNodes

SpecHistory == InitHistory /\ [][NextHistory]_vars

\* The numbers of the rows among the first n of the source whose chunk is
\* on the server, in the order of the source.
RECURSIVE OwnedSource(_, _, _)
OwnedSource(server, n, i) ==
  IF i > n
  THEN << >>
  ELSE IF list_member(find_chunk_for_point(source[i]), server)
       THEN <<i>> \o OwnedSource(server, n, i + 1)
       ELSE OwnedSource(server, n, i + 1)

\* C29: between two passes and at the end of a load that succeeds, what was
\* pushed to a data node over all passes is the rows of the source, counted
\* so far, whose chunk is on that node, each once, in the order of the
\* source; at the end these are all the rows read.
C29_PushedIsOwnedInOrder ==
  /\ (tracking /\ pc = "read" /\ ctx = "try") =>
       /\ processed + Len(batch_rows) = Len(source)
       /\ \A n \in Nodes : pushed[n] = OwnedSource(n, processed, 1)
  /\ (tracking /\ pc = "done") =>
       /\ processed = Len(source)
       /\ \A n \in Nodes : pushed[n] = OwnedSource(n, Len(source), 1)

\* A load of two rows in two passes succeeded; node 1 got both, its COPY
\* was ended for a new chunk and begun again in between, and node 2 got the
\* second row as well.
C29_Witness ==
  /\ tracking /\ pc = "done"
  /\ pushed[1] = <<1, 2>>
  /\ begin_count[<<1, 1>>] = 2
  /\ pushed[2] = <<2>>

(* ------------------------------------------------------------------ *)
(* connections_in_use against the status of the connections            *)
(* ------------------------------------------------------------------ *)

\* The connections cached in data_node_connections.
CachedConns ==
  {data_node_connections[i].connection : i \in 1..Len(data_node_connections)}

\* No connection is twice in connections_in_use.
NoDuplicateInUse ==
  \A i, j \in 1..Len(connections_in_use) :
    connections_in_use[i] = connections_in_use[j] => i = j

\* C31 as stated: connections_in_use holds no connection twice, and every
\* connection of the load in CONN_COPY_IN or CONN_PROCESSING is a member of
\* connections_in_use.
C31_Original ==
  /\ NoDuplicateInUse
  /\ \A c \in CachedConns :
       status[c] \in {"CONN_COPY_IN", "CONN_PROCESSING"} =>
         list_member(connections_in_use, c)

\* C31: connections_in_use holds no connection twice, every connection of
\* the load in CONN_COPY_IN is a member of it (the assertion of line 1251),
\* and so is every connection in CONN_PROCESSING, but for a connection that
\* was handed out in CONN_PROCESSING: that one is cached (lines 300-304 and
\* 1209-1214) before its status is tested, and the load raises the error of
\* lines 309-315 or 1255-1261 with no upload begun on it.
C31_UploadsAreInUse ==
  /\ NoDuplicateInUse
  /\ \A c \in CachedConns :
       /\ status[c] = "CONN_COPY_IN" => list_member(connections_in_use, c)
       /\ status[c] = "CONN_PROCESSING" =>
            \/ list_member(connections_in_use, c)
            \/ begin_count[c] = 0 /\ first_error = "wrong_status"

\* Two connections were flushed back to idle and their uploads begun again.
C31_Witness ==
  /\ InPass
  /\ Len(connections_in_use) = 2
  /\ \A c \in Range(connections_in_use) :
       status[c] = "CONN_COPY_IN" /\ begin_count[c] >= 2

====
